---- MODULE Spec2Model ----
(***************************************************************************)
(* Generative Generator firmware (Daisy Patch): the note learning session  *)
(* controller, the tendency analysis and the generative decision engine,   *)
(* modelled from the current firmware source (src/unnamed/part_001).       *)
(*                                                                         *)
(* Numbers.  Every float of the firmware that holds a normalised value     *)
(* (parameters, probabilities, random draws) is a fixed-point integer in   *)
(* thousandths (Scale).  register_center, a float mean, is kept as the     *)
(* exact fraction num/den.  Times are milliseconds of System::GetNow().    *)
(*                                                                         *)
(* Control flow.  One pass of UpdateControls() is split at the places      *)
(* where it reads the hardware; pc names the block that runs next.         *)
(*                                                                         *)
(* Randomness.  The value of each random_float() call is an input of the   *)
(* step that makes the call, drawn from a set R: the xorshift32           *)
(* stream is reseeded from the running clock, so the engine is checked     *)
(* against every sequence of draws rather than against one seed.           *)
(***************************************************************************)
EXTENDS Integers, Sequences, FiniteSets, TLC

(***************************************************************************)
(* Program constants                                                       *)
(***************************************************************************)
NUM_PAGES == 4
PARAMS_PER_PAGE == 4
TOTAL_PARAMS == 16

PARAM_MOTION == 0
PARAM_MEMORY == 1
PARAM_REGISTER == 2
PARAM_DIRECTION == 3
PARAM_PHRASE == 4
PARAM_ENERGY == 5
PARAM_STABILITY == 6
PARAM_FORGETFULNESS == 7
PARAM_LEAP_SHAPE == 8
PARAM_DIRECTION_MEMORY == 9
PARAM_HOME_REGISTER == 10
PARAM_RANGE_WIDTH == 11
PARAM_LEARN_TIMEOUT == 12
PARAM_ECHO_NOTES == 13

MIDI_CC_COUNT == 16
midi_cc_numbers ==
    [i \in 0..15 |-> IF i = 0 THEN 3 ELSE IF i = 1 THEN 9
                     ELSE IF i = 2 THEN 14 ELSE IF i = 3 THEN 15
                     ELSE 16 + i]

MIN_LEARN_NOTES == 4
MAX_LEARN_NOTES == 16
NOTE_HISTORY_SIZE == 8
MAX_ATTEMPTS == 4

\* fixed-point unit: the float 1.0
Scale == 1000
\* PICKUP_THRESHOLD = 0.05f and SMOOTHING_COEFF = 0.15f in thousandths
PICKUP_THRESHOLD == 50
SMOOTHING_COEFF == 150

STATE_IDLE == "IDLE"
STATE_LEARNING == "LEARNING"
STATE_GENERATING == "GENERATING"
LearningState == {STATE_IDLE, STATE_LEARNING, STATE_GENERATING}

(***************************************************************************)
(* Bounds of the model                                                     *)
(***************************************************************************)
\* milliseconds that pass in one pass of the main loop
TickMs == 500
\* no note-on, control change or encoder click arrives once the clock has
\* passed this
MaxInputTime == 1600
\* the encoder is turned and pots are moved until the clock has passed this
MaxPanelTime == 1100
\* calls of generate_next_note() followed in GenSpec
MaxGenerated == 2
\* trigger pulses sent to one generating session
MaxPulses == 1
\* length of the note sequences analysed exhaustively in AnalysisSpec
MaxAnalysed == 4

(***************************************************************************)
(* Arithmetic helpers                                                      *)
(***************************************************************************)
Abs(x) == IF x < 0 THEN -x ELSE x
Min(a, b) == IF a < b THEN a ELSE b
Max(a, b) == IF a > b THEN a ELSE b
\* the C cast (int)(n/d) for d > 0: truncation toward zero
Trunc(n, d) == IF n >= 0 THEN n \div d ELSE -((-n) \div d)
\* float division n/d for d > 0, rounded to the nearest fixed-point unit
Round(n, d) == (2 * n + d) \div (2 * d)
\* product of two fixed-point values
Mul(a, b) == Round(a * b, Scale)
\* if(x < 0.0f) x = 0.0f; if(x > 1.0f) x = 1.0f;
Clamp01(x) == IF x < 0 THEN 0 ELSE IF x > Scale THEN Scale ELSE x
\* fmax(0, fmin(127, n))
\* a clamp without the upper limit; C1 fails with it
ClampMidi_NoUpperLimit(n) == Max(0, n)

\* if(candidate_note < 0) candidate_note = 0; if(candidate_note > 127) candidate_note = 127
ClampMidi(n) == Max(0, Min(127, n))
\* the cast (uint8_t)n
Uint8(n) == n % 256

(***************************************************************************)
(* Tendency analysis                                                       *)
(***************************************************************************)
\* LearnedTendencies(): the value-initialised struct
LearnedTendencies ==
    [interval_counts |-> [i \in 0..12 |-> 0],
     total_intervals |-> 0,
     ascending_count |-> 0,
     descending_count |-> 0,
     repeat_count |-> 0,
     register_center |-> [num |-> 0, den |-> 1],
     register_range |-> 0,
     register_min |-> 0,
     register_max |-> 0,
     most_common_interval |-> 0,
     second_common_interval |-> 0]

\* the value of an expression that has one value
The(S) == CHOOSE x \in S : TRUE

\* a loop body that compares the minimum the wrong way round; C13 fails
\* with it
RegisterStep_MinReversed(r, note) ==
    [lo |-> IF note > r.lo THEN note ELSE r.lo,
     hi |-> IF note > r.hi THEN note ELSE r.hi,
     sum |-> r.sum + note]

\* body of the first loop
RegisterStep(r, note) ==
    [lo |-> IF note < r.lo THEN note ELSE r.lo,
     hi |-> IF note > r.hi THEN note ELSE r.hi,
     sum |-> r.sum + note]

\* first loop: running minimum, maximum and sum over note_buffer[0..n-1]
RECURSIVE RegisterScan(_, _)
RegisterScan(buf, n) ==
    IF n = 0 THEN [lo |-> 127, hi |-> 0, sum |-> 0]
    ELSE The({RegisterStep(r, buf[n - 1]) : r \in {RegisterScan(buf, n - 1)}})

\* a loop body that leaves intervals beyond the octave out of the
\* histogram; C11 fails with it
IntervalStep_NoCap(r, interval) ==
    [counts |-> IF Abs(interval) > 12 THEN r.counts
                ELSE [r.counts EXCEPT ![Abs(interval)] = @ + 1],
     total |-> r.total + 1,
     asc |-> IF interval > 0 THEN r.asc + 1 ELSE r.asc,
     desc |-> IF interval < 0 THEN r.desc + 1 ELSE r.desc,
     rep |-> IF interval = 0 THEN r.rep + 1 ELSE r.rep]

\* body of the second loop
IntervalStep(r, interval) ==
    LET interval_size == IF Abs(interval) > 12 THEN 12 ELSE Abs(interval)
    IN [counts |-> [r.counts EXCEPT ![interval_size] = @ + 1],
        total |-> r.total + 1,
        asc |-> IF interval > 0 THEN r.asc + 1 ELSE r.asc,
        desc |-> IF interval < 0 THEN r.desc + 1 ELSE r.desc,
        rep |-> IF interval = 0 THEN r.rep + 1 ELSE r.rep]

\* second loop: the pairs (note_buffer[i], note_buffer[i+1]) for i < n
RECURSIVE IntervalScan(_, _)
IntervalScan(buf, n) ==
    IF n <= 0 THEN [counts |-> [i \in 0..12 |-> 0], total |-> 0,
                    asc |-> 0, desc |-> 0, rep |-> 0]
    ELSE The({IntervalStep(r, buf[n] - buf[n - 1]) : r \in {IntervalScan(buf, n - 1)}})

\* a loop body in which a bin displaces the maximum on >=; C12 fails with it
CommonStep_LastWins(r, counts, i) ==
    IF counts[i] >= r.max_count
    THEN [max_count |-> counts[i], second_max_count |-> r.max_count,
          most |-> i, second |-> r.most]
    ELSE IF counts[i] > r.second_max_count
    THEN [r EXCEPT !.second_max_count = counts[i], !.second = i]
    ELSE r

\* body of the third loop for bin i
CommonStep(r, counts, i) ==
    IF counts[i] > r.max_count
    THEN [max_count |-> counts[i], second_max_count |-> r.max_count,
          most |-> i, second |-> r.most]
    ELSE IF counts[i] > r.second_max_count
    THEN [r EXCEPT !.second_max_count = counts[i], !.second = i]
    ELSE r

\* third loop: bins 0..k-1 scanned in ascending order
RECURSIVE CommonScan(_, _)
CommonScan(counts, k) ==
    IF k = 0 THEN [max_count |-> 0, second_max_count |-> 0,
                   most |-> 0, second |-> 0]
    ELSE The({CommonStep(r, counts, k - 1) : r \in {CommonScan(counts, k - 1)}})

\* a struct with the two direction counters exchanged; C33 fails with it
Analysis_DirectionsExchanged(reg, iv, cm, count) ==
    [interval_counts |-> iv.counts,
     total_intervals |-> iv.total,
     ascending_count |-> iv.desc,
     descending_count |-> iv.asc,
     repeat_count |-> iv.rep,
     register_center |-> [num |-> reg.sum, den |-> count],
     register_range |-> reg.hi - reg.lo,
     register_min |-> reg.lo,
     register_max |-> reg.hi,
     most_common_interval |-> cm.most,
     second_common_interval |-> cm.second]

\* the struct the three loops leave behind
Analysis(reg, iv, cm, count) ==
    [interval_counts |-> iv.counts,
     total_intervals |-> iv.total,
     ascending_count |-> iv.asc,
     descending_count |-> iv.desc,
     repeat_count |-> iv.rep,
     register_center |-> [num |-> reg.sum, den |-> count],
     register_range |-> reg.hi - reg.lo,
     register_min |-> reg.lo,
     register_max |-> reg.hi,
     most_common_interval |-> cm.most,
     second_common_interval |-> cm.second]

\* an analysis that runs over the whole array, not only the counted
\* notes; C14 fails with it
analyze_learned_notes_WholeBuffer(buf, count) ==
    IF count < 2 THEN LearnedTendencies
    ELSE The({Analysis(reg, iv, CommonScan(iv.counts, 13), count) :
                reg \in {RegisterScan(buf, MAX_LEARN_NOTES)},
                iv \in {IntervalScan(buf, MAX_LEARN_NOTES - 1)}})

analyze_learned_notes(buf, count) ==
    IF count < 2 THEN LearnedTendencies
    ELSE The({Analysis(reg, iv, CommonScan(iv.counts, 13), count) :
                reg \in {RegisterScan(buf, count)},
                iv \in {IntervalScan(buf, count - 1)}})

(***************************************************************************)
(* Generation engine: the pure part of each function.  P is the vector     *)
(* parameters_smoothed, T the tendencies, r.. the random_float() values    *)
(* the function draws, in the order it draws them, each taken from the set *)
(* R of values a random_float() call is given in the model.                *)
(***************************************************************************)

\* an energy deviation with the sign turned round; C20 fails with it
energy_deviation_Inverted(P) == (500 - P[PARAM_ENERGY]) * 2

\* float energy_deviation = (energy - 0.5f) * 2.0f
energy_deviation(P) == (P[PARAM_ENERGY] - 500) * 2

count_in_history(hist, hcount, note) ==
    Cardinality({i \in 0..(hcount - 1) : hist[i] = note})

\* a start note rounded up; C18 fails with it
StartNote_RoundedUp(T) ==
    (T.register_center.num + T.register_center.den - 1) \div T.register_center.den

\* current_note = (uint8_t)tendencies.register_center
StartNote(T) == T.register_center.num \div T.register_center.den

\* memory_param of apply_memory_bias: MEMORY less 0.3 of the energy
\* deviation, clamped to 0.0..1.0
memory_param(P) == Clamp01(P[PARAM_MEMORY] - Mul(energy_deviation(P), 300))

\* an acceptance probability without the clamp to 0.0..1.0; C38 fails
\* with it
acceptance_probability_Unclamped(P, hist, hcount, candidate_note) ==
    LET memory == memory_param(P)
        history_count == count_in_history(hist, hcount, candidate_note)
        avoidance == Round((400 - memory) * Scale, 400)
        favoritism == Round((memory - 600) * Scale, 400)
    IN IF memory < 400
       THEN Scale - Round(avoidance * history_count, NOTE_HISTORY_SIZE)
       ELSE IF memory > 600
       THEN Scale + Round(favoritism * history_count, NOTE_HISTORY_SIZE)
       ELSE Scale

\* acceptance_probability of apply_memory_bias, after clamping
acceptance_probability(P, hist, hcount, candidate_note) ==
    LET memory == memory_param(P)
        history_count == count_in_history(hist, hcount, candidate_note)
        avoidance == Round((400 - memory) * Scale, 400)
        favoritism == Round((memory - 600) * Scale, 400)
    IN Clamp01(IF memory < 400
               THEN Scale - Round(avoidance * history_count, NOTE_HISTORY_SIZE)
               ELSE IF memory > 600
               THEN Scale + Round(favoritism * history_count, NOTE_HISTORY_SIZE)
               ELSE Scale)

\* the set of results apply_memory_bias can return; it draws only when the
\* candidate occurs in the history
apply_memory_bias(R, P, hist, hcount, candidate_note) ==
    IF count_in_history(hist, hcount, candidate_note) = 0 THEN {TRUE}
    ELSE {r < acceptance_probability(P, hist, hcount, candidate_note) :
            r \in R}

\* cumulative[i] of select_interval_from_distribution
RECURSIVE cumulative(_, _)
cumulative(T, i) ==
    IF i < 0 THEN 0 ELSE cumulative(T, i - 1) + T.interval_counts[i]

\* for(int i = 0; i <= 12; i++) if(rand_val < cumulative[i]) return i;
\* and the fallback behind the loop
RECURSIVE first_bin(_, _, _)
first_bin(T, rand_val, i) ==
    IF i > 12 THEN 2
    ELSE IF rand_val < cumulative(T, i) THEN i
    ELSE first_bin(T, rand_val, i + 1)

select_interval_from_distribution(T, r) ==
    IF T.total_intervals = 0 THEN 2
    ELSE first_bin(T, Trunc(r * cumulative(T, 12), Scale), 0)

\* phrase_progress = (float)phrase_note_count / (float)phrase_target_length
phrase_progress(pcount, ptarget) == Round(pcount * Scale, ptarget)

\* phrase_boost = (phrase_progress - 0.7f) / 0.3f
phrase_boost(pcount, ptarget) ==
    Round((phrase_progress(pcount, ptarget) - 700) * Scale, 300)

\* what the boost near the phrase boundary adds to effective_gravity, before
\* the sum is clamped to 1.0: phrase_boost * 0.3f in the last 30% of the
\* phrase, nothing before
gravity_boost(pcount, ptarget) ==
    IF ptarget > 0 /\ phrase_progress(pcount, ptarget) > 700
    THEN Mul(phrase_boost(pcount, ptarget), 300)
    ELSE 0

\* effective_gravity of select_direction after the energy scaling and
\* before the boost near the phrase boundary
energy_gravity(P) == Clamp01(P[PARAM_REGISTER] - Mul(energy_deviation(P), 300))

\* base_probability of select_direction: the learned share of ascending
\* steps blended with the DIRECTION control
base_probability(P, T) ==
    LET direction_bias == P[PARAM_DIRECTION]
        total_directional == T.ascending_count + T.descending_count
        learned_up_probability ==
            IF total_directional > 0
            THEN Round(T.ascending_count * Scale, total_directional)
            ELSE 500
        blend_factor == Abs(direction_bias - 500) * 2
        target_probability == IF direction_bias > 500 THEN Scale ELSE 0
    IN Mul(learned_up_probability, Scale - blend_factor)
       + Mul(target_probability, blend_factor)

\* effective_gravity after the energy scaling, the phrase boost and the
\* clamp to 1.0
effective_gravity(P, pcount, ptarget) ==
    Min(Scale, energy_gravity(P) + gravity_boost(pcount, ptarget))

\* (current_note - register_center) / 24.0f, clamped to -1.0 .. 1.0
normalized_distance(T, cur) ==
    LET d == Round((cur * T.register_center.den - T.register_center.num)
                   * Scale, 24 * T.register_center.den)
    IN IF d < -Scale THEN -Scale ELSE IF d > Scale THEN Scale ELSE d

\* a gravity that pushes away from the centre; C32 fails with it
gravity_influence_Reversed(P, T, cur, pcount, ptarget) ==
    IF effective_gravity(P, pcount, ptarget) > 50
    THEN Mul(normalized_distance(T, cur), effective_gravity(P, pcount, ptarget))
    ELSE 0

\* gravity_influence: nothing up to an effective gravity of 0.05, above it
\* the distance from the centre with its sign turned round
gravity_influence(P, T, cur, pcount, ptarget) ==
    IF effective_gravity(P, pcount, ptarget) > 50
    THEN -Mul(normalized_distance(T, cur), effective_gravity(P, pcount, ptarget))
    ELSE 0

\* float final_probability of select_direction, after clamping
final_probability(P, T, cur, pcount, ptarget) ==
    Clamp01(base_probability(P, T)
            + Mul(gravity_influence(P, T, cur, pcount, ptarget), 500))

\* a direction that always follows the likelier side; C40 fails with it
select_direction_Likelier(R, P, T, cur, pcount, ptarget) ==
    {final_probability(P, T, cur, pcount, ptarget) >= 500}

\* the set of results select_direction can return
select_direction(R, P, T, cur, pcount, ptarget) ==
    {r < final_probability(P, T, cur, pcount, ptarget) : r \in R}

\* range_param of apply_octave_displacement, after clamping
range_param(P) == Clamp01(P[PARAM_RANGE_WIDTH] + Mul(energy_deviation(P), 300))

\* int octave_shift, from the second draw
octave_shift(P, r2) ==
    IF range_param(P) < 500
    THEN (IF r2 > 500 THEN 12 ELSE -12)
    ELSE IF r2 < 500 THEN 12
    ELSE IF r2 < 750 THEN -12
    ELSE IF r2 < 875 THEN 24
    ELSE -24

\* a displacement without the test of range_param against 0.1; C21 fails
\* with it
apply_octave_displacement_Ungated(R, P, note) ==
    {IF r1 > Mul(range_param(P), 200) THEN note
     ELSE Uint8(ClampMidi(note + octave_shift(P, r2))) : r1 \in R, r2 \in R}

\* the set of notes apply_octave_displacement can return for one note
apply_octave_displacement(R, P, note) ==
    IF range_param(P) < 100 THEN {note}
    ELSE LET displacement_probability == Mul(range_param(P), 200)
         IN {IF r1 > displacement_probability THEN note
             ELSE Uint8(ClampMidi(note + octave_shift(P, r2))) :
               r1 \in R, r2 \in R}

\* a motion bias that STABILITY damps; C23 fails with it
motion_bias_Stabilised(P) ==
    Clamp01(P[PARAM_MOTION] + Mul(energy_deviation(P), 300)
            - Mul(P[PARAM_STABILITY], 200))

\* motion_bias and phrase_param of generate_next_note, after clamping
motion_bias(P) == Clamp01(P[PARAM_MOTION] + Mul(energy_deviation(P), 300))
phrase_param(P) == Clamp01(P[PARAM_PHRASE] + Mul(energy_deviation(P), 200))
\* phrase_target_length = (int)(4.0f + phrase_param * 28.0f)
PhraseTarget(P) == Trunc(4 * Scale + phrase_param(P) * 28, Scale)

\* a rescaling whose large branch adds the boost without the limit of 12;
\* C30 fails with it
motion_interval_Unlimited(P, interval_size, r) ==
    IF motion_bias(P) < 500
    THEN LET scaled == Trunc(interval_size * motion_bias(P) * 2 + 500, Scale)
         IN IF scaled = 0 /\ r > 500 THEN 1 ELSE scaled
    ELSE interval_size + Trunc((motion_bias(P) - 500) * 2 * 4, Scale)

\* interval_size after the MOTION rescaling; r is the coin of the small branch
motion_interval(P, interval_size, r) ==
    IF motion_bias(P) < 500
    THEN LET scaled == Trunc(interval_size * motion_bias(P) * 2 + 500, Scale)
         IN IF scaled = 0 /\ r > 500 THEN 1 ELSE scaled
    ELSE LET boost == Trunc((motion_bias(P) - 500) * 2 * 4, Scale)
         IN Min(interval_size + boost, 12)

\* the candidates one pass of the while loop can produce
Candidates(R, P, T, cur, pcount, ptarget) ==
    LET sampled == {select_interval_from_distribution(T, r1) : r1 \in R}
        sizes == UNION {{motion_interval(P, interval_size, r2) : r2 \in R} :
                          interval_size \in sampled}
        ups == select_direction(R, P, T, cur, pcount, ptarget)
        clamped == {ClampMidi(cur + (IF go_up THEN sz ELSE -sz)) :
                      sz \in sizes, go_up \in ups}
    IN {Uint8(n) : n \in UNION {apply_octave_displacement(R, P, Uint8(c)) : c \in clamped}}

\* a loop that goes round once more; C15 fails with it
LoopContinues_OnceMore(attempts_so_far) == attempts_so_far <= MAX_ATTEMPTS

\* while(attempts < MAX_ATTEMPTS)
LoopContinues(attempts_so_far) == attempts_so_far < MAX_ATTEMPTS

\* the while loop from the point where attempts_so_far candidates have been
\* rejected and last_candidate is the last of them: the set of ways it
\* can end.  A pass draws a candidate; if apply_memory_bias accepts it the
\* loop breaks, otherwise attempts is counted up.  cands is the set of
\* candidates a pass can produce.
RECURSIVE LoopFrom(_, _, _, _, _, _, _)
LoopFrom(R, P, hist, hcount, cands, attempts_so_far, last_candidate) ==
    IF LoopContinues(attempts_so_far)
    THEN UNION {UNION {IF verdict
                       THEN {[note |-> c, attempts |-> attempts_so_far,
                              accepted |-> TRUE]}
                       ELSE LoopFrom(R, P, hist, hcount, cands,
                                     attempts_so_far + 1, c) :
                         verdict \in apply_memory_bias(R, P, hist, hcount, c)} :
                  c \in cands}
    ELSE {[note |-> last_candidate, attempts |-> attempts_so_far,
           accepted |-> FALSE]}

\* the while loop of one call, entered with attempts = 0 and
\* candidate_note = 0: the set of ways it can end, each with the
\* note it leaves in candidate_note, the final value of attempts and
\* whether the last candidate was accepted
LoopOutcomes(R, P, T, cur, hist, hcount, pcount, ptarget) ==
    UNION {LoopFrom(R, P, hist, hcount, cands, 0, 0) :
             cands \in {Candidates(R, P, T, cur, pcount, ptarget)}}

\* a reset that is certain at the boundary; C28 fails with it
reset_probability_Certain(n, ptarget) == Scale + 1

\* reset_probability for the incremented count n at or beyond the target:
\* 0.5 plus 0.5 for an overrun of one target length, at most 1.0
reset_probability(n, ptarget) ==
    Min(Scale, 500 + Round((n - ptarget) * 500, ptarget))

\* a counter that can be reset before the target is reached; C27 fails
\* with it
PhraseCounts_ResetAnywhere(R, pcount, ptarget) == {0, pcount + 1}

\* the phrase counter after the soft phrase boundary: the set of values
\* phrase_note_count can have at the end of a call
PhraseCounts(R, pcount, ptarget) ==
    LET n == pcount + 1
    IN IF n >= ptarget
       THEN {IF r < reset_probability(n, ptarget) THEN 0 ELSE n : r \in R}
       ELSE {n}

(***************************************************************************)
(* State                                                                   *)
(***************************************************************************)
VARIABLES
    pc,                   \* the block of UpdateControls() that runs next
    now,                  \* System::GetNow(), milliseconds
    midi_event,           \* the event popped by the MIDI loop in this step
    midi_out,             \* the message send_midi_note() sent in this step
    encoder_click,        \* hw.encoder.RisingEdge() as read in this step
    learning_state,
    note_buffer,
    note_buffer_count,
    last_note_time,
    tendencies,
    current_note,
    previous_note,
    last_interval,
    last_direction_up,
    note_history,
    note_history_count,
    note_history_index,
    phrase_note_count,
    phrase_target_length,
    attempts,             \* generate_next_note's attempts when its loop ended
    candidate_accepted,   \* whether the loop ended on the break
    candidate_note,       \* the candidate apply_memory_bias judged last
    parameters,
    parameters_smoothed,
    param_pickup_active,
    pot_last_value,
    pot_values,
    current_page,
    gate1_state,
    gate1_prev,
    note_triggered,
    gate_out_state,
    gate_out_start_time,
    gate_length_ms

session_vars == <<learning_state, note_buffer, note_buffer_count, last_note_time>>
generation_vars == <<current_note, previous_note, last_interval, last_direction_up,
                     note_history, note_history_count, note_history_index,
                     phrase_note_count, phrase_target_length,
                     attempts, candidate_accepted, candidate_note>>
param_vars == <<parameters, parameters_smoothed, param_pickup_active,
                pot_last_value, pot_values, current_page>>
gate_in_vars == <<gate1_state, gate1_prev, note_triggered>>
gate_out_vars == <<gate_out_state, gate_out_start_time, gate_length_ms>>

vars == <<pc, now, midi_event, midi_out, encoder_click, session_vars, tendencies,
          generation_vars, param_vars, gate_in_vars, gate_out_vars>>

NoEvent == [type |-> "None"]
NoMessage == <<>>

(***************************************************************************)
(* Inputs offered by the environment                                       *)
(***************************************************************************)
\* the phrases a player enters: the test phrases of TESTING.md and of the
\* Electra One preset, and phrases at both ends of the MIDI range
Phrases ==
    {<<60, 62, 64, 67, 69>>,
     <<60, 62, 64, 65, 67, 69, 71, 72, 74, 76, 77, 79, 81, 83, 84, 86>>}

\* the notes a player can send next: the first note of a phrase, or the
\* note that continues the phrase entered so far
NoteInputs(phrases) ==
    IF learning_state = STATE_LEARNING /\ note_buffer_count < MAX_LEARN_NOTES
    THEN {ph[note_buffer_count + 1] : ph \in
            {q \in phrases : /\ Len(q) > note_buffer_count
                             /\ \A i \in 1..note_buffer_count :
                                    q[i] = note_buffer[i - 1]}}
    ELSE {ph[1] : ph \in phrases}

VelocityInputs == {0, 100}

\* <<cc_number, cc_value>>: ECHO on, LEARN_TIMEOUT to its minimum,
\* and a controller number that is not mapped
CCInputs == {<<29, 127>>, <<28, 0>>, <<7, 64>>}

\* readings of the four pots: nobody touches them
PotInputs == {[i \in 0..3 |-> 500]}

\* the pot positions at power-up
PotInit == {[i \in 0..3 |-> 500]}

\* hw.encoder.Increment(): the encoder is not turned
EncoderInputs == {0}

\* the front panel in use: the encoder turned either way, pot 1 moved
PanelPhrases ==
    {<<60, 62, 64, 65, 67, 69, 71, 72, 74, 76, 77, 79, 81, 83, 84, 86>>}
PanelCCInputs == {<<29, 127>>}
PanelOpen == now <= MaxPanelTime
PanelEncoderInputs == IF PanelOpen THEN {-1, 0, 1} ELSE {0}
PanelPotInputs ==
    IF PanelOpen THEN {[i \in 0..3 |-> IF i = 0 THEN v ELSE 500] : v \in {500, 506}}
    ELSE {pot_values}

\* System::GetNow() when the main loop is entered (after the two delays)
StartTime == 1100

InputsOpen == now <= MaxInputTime

\* the main loop is followed for one more pass after the inputs close, and
\* up to MaxTime while a session that can still time out is waiting
QuietTime == MaxInputTime + TickMs
MaxTime == MaxInputTime + 6 * TickMs

(***************************************************************************)
(* main(): the state when the main loop is entered                         *)
(***************************************************************************)
Init ==
    /\ pc = "midi"
    /\ now = StartTime
    /\ midi_event = NoEvent
    /\ midi_out = NoMessage
    /\ encoder_click = FALSE
    /\ learning_state = STATE_IDLE
    /\ note_buffer = [i \in 0..(MAX_LEARN_NOTES - 1) |-> 0]
    /\ note_buffer_count = 0
    /\ last_note_time = 0
    /\ tendencies = LearnedTendencies
    /\ current_note = 60
    /\ previous_note = 60
    /\ last_interval = 0
    /\ last_direction_up = TRUE
    /\ note_history = [i \in 0..(NOTE_HISTORY_SIZE - 1) |-> 0]
    /\ note_history_count = 0
    /\ note_history_index = 0
    /\ phrase_note_count = 0
    /\ phrase_target_length = 12
    /\ attempts = 0
    /\ candidate_accepted = FALSE
    /\ candidate_note = 0
    /\ pot_values \in PotInit
    /\ parameters = [i \in 0..(TOTAL_PARAMS - 1) |->
                        IF i < PARAMS_PER_PAGE THEN pot_values[i]
                        ELSE IF i = PARAM_LEARN_TIMEOUT THEN 158
                        ELSE IF i = PARAM_ECHO_NOTES THEN 0
                        ELSE 500]
    /\ parameters_smoothed = parameters
    /\ param_pickup_active = [i \in 0..(TOTAL_PARAMS - 1) |-> i < PARAMS_PER_PAGE]
    /\ pot_last_value = [i \in 0..(TOTAL_PARAMS - 1) |-> pot_values[i % PARAMS_PER_PAGE]]
    /\ current_page = 0
    /\ gate1_state = FALSE
    /\ gate1_prev = FALSE
    /\ note_triggered = FALSE
    /\ gate_out_state = FALSE
    /\ gate_out_start_time = 0
    /\ gate_length_ms = 50

(***************************************************************************)
(* Learning session                                                        *)
(***************************************************************************)
\* a session value: the four globals start_learning and add_note_to_buffer
\* work on
Session(st, buf, cnt, t) == [state |-> st, buffer |-> buf, count |-> cnt, time |-> t]

\* a start that leaves learning_state alone; C2 fails with it
start_learning_KeepsState(s) == Session(s.state, s.buffer, 0, now)

start_learning(s) == Session(STATE_LEARNING, s.buffer, 0, now)

\* an append that does not count the note; C7 fails with it
add_note_to_buffer_NotCounted(s, midi_note) ==
    IF s.state = STATE_LEARNING /\ s.count < MAX_LEARN_NOTES
    THEN Session(s.state, [s.buffer EXCEPT ![s.count] = midi_note], s.count, now)
    ELSE s

add_note_to_buffer(s, midi_note) ==
    IF s.state = STATE_LEARNING /\ s.count < MAX_LEARN_NOTES
    THEN Session(s.state, [s.buffer EXCEPT ![s.count] = midi_note], s.count + 1, now)
    ELSE s

\* the bytes send_midi_note hands to hw.midi.SendMessage
send_midi_note(note, velocity) == <<144, IF note > 127 THEN 127 ELSE note, velocity>>

\* a timeout that takes the parameter in thousandths for a number of
\* milliseconds; C5 fails with it
learning_timeout_ms_Unscaled(P) == 500 + P[PARAM_LEARN_TIMEOUT] * 9500

\* uint32_t learning_timeout_ms = 500 + (uint32_t)(timeout_param * 9500.0f)
learning_timeout_ms(P) == 500 + Trunc(P[PARAM_LEARN_TIMEOUT] * 9500, Scale)

\* a buffer that is never found full; C3 fails with it
BufferFull_Never(cnt) == FALSE

\* note_buffer_count >= MAX_LEARN_NOTES
BufferFull(cnt) == cnt >= MAX_LEARN_NOTES

\* a timeout that does not ask for the minimum of notes; C4 fails with it
TimedOut_NoMinimum(cnt, time_since_note, P) ==
    time_since_note > learning_timeout_ms(P)

\* time_since_note > learning_timeout_ms && note_buffer_count >= MIN_LEARN_NOTES
TimedOut(cnt, time_since_note, P) ==
    time_since_note > learning_timeout_ms(P) /\ cnt >= MIN_LEARN_NOTES

\* a stop condition met by any pause, however few notes are stored; C37
\* fails with it
LearningStops_OnAnyPause(cnt, time_since_note, P) ==
    BufferFull(cnt) \/ time_since_note > learning_timeout_ms(P)

\* the stop condition of update_learning_state
LearningStops(cnt, time_since_note, P) ==
    BufferFull(cnt) \/ TimedOut(cnt, time_since_note, P)

\* an echo that does not look at the ECHO parameter; C9 fails with it
EchoEnabled_Always(st, P) == st = STATE_LEARNING

\* if(learning_state == STATE_LEARNING && parameters_smoothed[PARAM_ECHO_NOTES] > 0.5f)
EchoEnabled(st, P) == st = STATE_LEARNING /\ P[PARAM_ECHO_NOTES] > 500

(***************************************************************************)
(* UpdateControls(): the MIDI loop, one popped event per step              *)
(***************************************************************************)
\* a handler that takes a note-on of any velocity as a note; C22 fails
\* with it
VelocityOn_Any(velocity) == velocity >= 0

\* if(velocity > 0)
VelocityOn(velocity) == velocity > 0

NoteOn(phrases) ==
    /\ pc = "midi"
    /\ InputsOpen
    /\ \E note \in NoteInputs(phrases), velocity \in VelocityInputs :
        LET s0 == Session(learning_state, note_buffer, note_buffer_count, last_note_time)
            s1 == IF learning_state = STATE_IDLE \/ learning_state = STATE_GENERATING
                  THEN start_learning(s0) ELSE s0
            s2 == add_note_to_buffer(s1, note)
            echo == EchoEnabled(s2.state, parameters_smoothed)
        IN /\ midi_event' = [type |-> "NoteOn", note |-> note, velocity |-> velocity]
           /\ IF VelocityOn(velocity)
              THEN /\ learning_state' = s2.state
                   /\ note_buffer' = s2.buffer
                   /\ note_buffer_count' = s2.count
                   /\ last_note_time' = s2.time
                   /\ IF echo
                      THEN /\ midi_out' = send_midi_note(note, velocity)
                           /\ gate_out_state' = TRUE
                           /\ gate_out_start_time' = now
                           /\ gate_length_ms' = 100
                      ELSE /\ midi_out' = NoMessage
                           /\ UNCHANGED gate_out_vars
              ELSE /\ midi_out' = NoMessage
                   /\ UNCHANGED <<session_vars, gate_out_vars>>
    /\ UNCHANGED <<pc, now, encoder_click, tendencies, generation_vars, param_vars, gate_in_vars>>

MidiNoteOn == NoteOn(Phrases)

MidiNoteOff ==
    /\ pc = "midi"
    /\ InputsOpen
    /\ midi_event' = [type |-> "NoteOff"]
    /\ midi_out' = NoMessage
    /\ UNCHANGED <<pc, now, encoder_click, session_vars, tendencies, generation_vars, param_vars,
                   gate_in_vars, gate_out_vars>>

ControlChange(ccs) ==
    /\ pc = "midi"
    /\ InputsOpen
    /\ \E cc \in ccs :
        LET cc_number == cc[1]
            cc_value == cc[2]
            matches == {i \in 0..(MIDI_CC_COUNT - 1) : midi_cc_numbers[i] = cc_number}
            param_value == Round(cc_value * Scale, 127)
        IN /\ midi_event' = [type |-> "ControlChange", cc_number |-> cc_number,
                             cc_value |-> cc_value]
           /\ IF matches = {}
              THEN UNCHANGED <<parameters, parameters_smoothed, param_pickup_active>>
              ELSE LET i == CHOOSE m \in matches : \A k \in matches : m <= k
                   IN /\ parameters' = [parameters EXCEPT ![i] = param_value]
                      /\ parameters_smoothed' = [parameters_smoothed EXCEPT ![i] = param_value]
                      /\ param_pickup_active' = [param_pickup_active EXCEPT ![i] = FALSE]
    /\ midi_out' = NoMessage
    /\ UNCHANGED <<pc, now, encoder_click, session_vars, tendencies, generation_vars,
                   pot_last_value, pot_values, current_page, gate_in_vars, gate_out_vars>>

MidiControlChange == ControlChange(CCInputs)

\* hw.midi.HasEvents() is false: the loop ends
MidiDone ==
    /\ pc = "midi"
    /\ pc' = "learn"
    /\ midi_event' = NoEvent
    /\ midi_out' = NoMessage
    /\ UNCHANGED <<now, encoder_click, session_vars, tendencies, generation_vars,
                   param_vars, gate_in_vars, gate_out_vars>>

(***************************************************************************)
(* update_learning_state()                                                 *)
(***************************************************************************)
update_learning_state ==
    /\ pc = "learn"
    /\ pc' = "encoder"
    /\ IF /\ learning_state = STATE_LEARNING
          /\ LearningStops(note_buffer_count, now - last_note_time, parameters_smoothed)
       THEN \E T \in {analyze_learned_notes(note_buffer, note_buffer_count)} :
               \E start \in {StartNote(T)} :
                  /\ learning_state' = STATE_GENERATING
                  /\ tendencies' = T
                  /\ current_note' = start
                  /\ previous_note' = start
                  /\ last_interval' = 0
                  /\ last_direction_up' = (T.ascending_count >= T.descending_count)
                  /\ note_history_count' = 0
                  /\ note_history_index' = 0
                  /\ note_history' = [i \in 0..(NOTE_HISTORY_SIZE - 1) |-> 0]
                  /\ phrase_note_count' = 0
                  /\ phrase_target_length' = 12
                  /\ UNCHANGED <<attempts, candidate_accepted, candidate_note>>
       ELSE UNCHANGED <<learning_state, tendencies, generation_vars>>
    /\ UNCHANGED <<now, midi_event, midi_out, encoder_click, note_buffer, note_buffer_count,
                   last_note_time, param_vars, gate_in_vars,
                   gate_out_vars>>

(***************************************************************************)
(* UpdateControls(): encoder, pots, encoder click                          *)
(***************************************************************************)
\* current_page after current_page += encoder_change and the wrap-around
WrapPage(page) ==
    IF page < 0 THEN NUM_PAGES - 1
    ELSE IF page >= NUM_PAGES THEN 0
    ELSE page

\* the parameters of a page: param_index = page * PARAMS_PER_PAGE + i
OnPage(page, param_index) ==
    param_index \div PARAMS_PER_PAGE = page

Encoder(turns, readings) ==
    /\ pc = "encoder"
    /\ pc' = "pots"
    /\ \E encoder_change \in (IF InputsOpen THEN turns ELSE {0}),
          pots \in readings :
        IF encoder_change # 0
        THEN LET page == WrapPage(current_page + encoder_change)
             IN /\ current_page' = page
                /\ param_pickup_active' =
                       [k \in 0..(TOTAL_PARAMS - 1) |->
                           IF OnPage(page, k) THEN FALSE ELSE param_pickup_active[k]]
                /\ pot_last_value' =
                       [k \in 0..(TOTAL_PARAMS - 1) |->
                           IF OnPage(page, k) THEN pots[k % PARAMS_PER_PAGE]
                           ELSE pot_last_value[k]]
        ELSE UNCHANGED <<current_page, param_pickup_active, pot_last_value>>
    /\ UNCHANGED <<now, midi_event, midi_out, encoder_click, session_vars, tendencies,
                   generation_vars, parameters, parameters_smoothed, pot_values,
                   gate_in_vars, gate_out_vars>>

EncoderTurn == Encoder(EncoderInputs, PotInputs)

\* soft takeover: whether the pot catches the stored value in this pass
Pickup(active, stored_value, pot_value, last_pot) ==
    \/ active
    \/ Abs(pot_value - stored_value) < PICKUP_THRESHOLD
    \/ (last_pot <= stored_value /\ pot_value >= stored_value)
    \/ (last_pot >= stored_value /\ pot_value <= stored_value)

\* one-pole lowpass: smoothed += SMOOTHING_COEFF * (target - smoothed)
Smooth(smoothed, target) == smoothed + Mul(SMOOTHING_COEFF, target - smoothed)

Pots(readings) ==
    /\ pc = "pots"
    /\ pc' = "click"
    /\ \E pots \in readings :
        LET active == [k \in 0..(TOTAL_PARAMS - 1) |->
                          IF OnPage(current_page, k)
                          THEN Pickup(param_pickup_active[k], parameters[k],
                                      pots[k % PARAMS_PER_PAGE], pot_last_value[k])
                          ELSE param_pickup_active[k]]
            stored == [k \in 0..(TOTAL_PARAMS - 1) |->
                          IF OnPage(current_page, k) /\ active[k]
                          THEN pots[k % PARAMS_PER_PAGE]
                          ELSE parameters[k]]
        IN /\ pot_values' = pots
           /\ param_pickup_active' = active
           /\ parameters' = stored
           /\ pot_last_value' = [k \in 0..(TOTAL_PARAMS - 1) |->
                                    IF OnPage(current_page, k)
                                    THEN pots[k % PARAMS_PER_PAGE]
                                    ELSE pot_last_value[k]]
           /\ parameters_smoothed' = [k \in 0..(TOTAL_PARAMS - 1) |->
                                         Smooth(parameters_smoothed[k], stored[k])]
    /\ UNCHANGED <<now, midi_event, midi_out, encoder_click, session_vars, tendencies,
                   generation_vars, current_page, gate_in_vars, gate_out_vars>>

ReadPots == Pots(PotInputs)

\* a click that clears the buffer and goes on generating; C19 fails with it
ClickResult_KeepsGenerating(st, cnt, page) ==
    IF st = STATE_GENERATING
    THEN [state |-> st, count |-> 0, page |-> page]
    ELSE [state |-> st, count |-> cnt, page |-> 0]

\* what the encoder click does to learning_state, note_buffer_count and
\* current_page
ClickResult(st, cnt, page) ==
    IF st = STATE_GENERATING
    THEN [state |-> STATE_IDLE, count |-> 0, page |-> page]
    ELSE [state |-> st, count |-> cnt, page |-> 0]

\* hw.encoder.RisingEdge()
EncoderClick ==
    /\ pc = "click"
    /\ pc' = "gate1"
    /\ \E rising_edge \in (IF InputsOpen THEN BOOLEAN ELSE {FALSE}) :
        /\ encoder_click' = rising_edge
        /\ IF rising_edge
           THEN LET res == ClickResult(learning_state, note_buffer_count, current_page)
                IN /\ learning_state' = res.state
                   /\ note_buffer_count' = res.count
                   /\ current_page' = res.page
           ELSE UNCHANGED <<learning_state, note_buffer_count, current_page>>
    /\ UNCHANGED <<now, midi_event, midi_out, note_buffer, last_note_time,
                   tendencies, generation_vars, parameters,
                   parameters_smoothed, param_pickup_active, pot_last_value,
                   pot_values, gate_in_vars, gate_out_vars>>

(***************************************************************************)
(* UpdateControls(): gate input 1 and generate_next_note()                 *)
(***************************************************************************)
\* a write into the cell after note_history_index; C35 fails with it
add_note_to_history_NextCell(hist, index, note) ==
    [hist EXCEPT ![(index + 1) % NOTE_HISTORY_SIZE] = note]

\* add_note_to_history: note_history[note_history_index] = note
add_note_to_history(hist, index, note) == [hist EXCEPT ![index] = note]

\* the values a random_float() call is given (thousandths)
RandomFloats == {0, 600, 1000}

\* the levels gate input 1 can show: a clock source stops after MaxPulses
\* notes of one session
Gate1Inputs ==
    IF gate1_state \/ learning_state # STATE_GENERATING
       \/ note_history_count < MaxPulses
    THEN BOOLEAN
    ELSE {FALSE}

\* a direction flag set by a fall; C36 fails with it
Ascends_Reversed(candidate, cur) == candidate < cur

\* last_direction_up = (candidate_note > current_note)
Ascends(candidate, cur) == candidate > cur

\* the rising edge calls generate_next_note(), sends the note and raises
\* the gate output
generate_next_note(R) ==
    LET P == parameters_smoothed
        target == PhraseTarget(P)
    IN \E outcome \in LoopOutcomes(R, P, tendencies, current_note, note_history,
                                   note_history_count, phrase_note_count, target),
          count \in PhraseCounts(R, phrase_note_count, target) :
        LET returned_note == outcome.note
        IN /\ attempts' = outcome.attempts
           /\ candidate_accepted' = outcome.accepted
           /\ candidate_note' = returned_note
           /\ phrase_target_length' = target
           /\ note_history' = add_note_to_history(note_history, note_history_index,
                                                  returned_note)
           /\ note_history_index' = (note_history_index + 1) % NOTE_HISTORY_SIZE
           /\ note_history_count' = IF note_history_count < NOTE_HISTORY_SIZE
                                    THEN note_history_count + 1
                                    ELSE note_history_count
           /\ phrase_note_count' = count
           /\ previous_note' = current_note
           /\ last_interval' = returned_note - current_note
           /\ last_direction_up' = Ascends(returned_note, current_note)
           /\ current_note' = returned_note
           /\ midi_out' = send_midi_note(returned_note, 100)
           /\ gate_out_state' = TRUE
           /\ gate_out_start_time' = now
           /\ gate_length_ms' = 50

\* a level-sensitive trigger; C10 fails with it
RisingEdge_Level(state, prev) == state

\* if(gate1_state && !gate1_prev)
RisingEdge(state, prev) == state /\ ~prev

\* a trigger that generates in any session state; C8 fails with it
CanGenerate_AnyState(st, cnt) == cnt >= MIN_LEARN_NOTES

\* if(learning_state == STATE_GENERATING && note_buffer_count >= MIN_LEARN_NOTES)
CanGenerate(st, cnt) == st = STATE_GENERATING /\ cnt >= MIN_LEARN_NOTES

\* a trigger that generates as soon as a note is stored, whatever the
\* session state; C39 fails with it
TriggerGenerates_OnAnyStoredNote(state, prev, st, cnt) ==
    RisingEdge(state, prev) /\ cnt >= 1

\* the trigger generates a note
TriggerGenerates(state, prev, st, cnt) ==
    RisingEdge(state, prev) /\ CanGenerate(st, cnt)

Gate1 ==
    /\ pc = "gate1"
    /\ pc' = "gateout"
    /\ encoder_click' = FALSE
    /\ \E level \in Gate1Inputs :
        /\ gate1_prev' = gate1_state
        /\ gate1_state' = level
        /\ note_triggered' = (level /\ ~gate1_state)
        /\ IF TriggerGenerates(level, gate1_state, learning_state, note_buffer_count)
           THEN generate_next_note(RandomFloats)
           ELSE /\ midi_out' = NoMessage
                /\ UNCHANGED <<generation_vars, gate_out_vars>>
    /\ UNCHANGED <<now, midi_event, session_vars, tendencies,
                   param_vars>>

\* the gate output falls when gate_length_ms has elapsed
GateOut ==
    /\ pc = "gateout"
    /\ pc' = "delay"
    /\ gate_out_state' = (gate_out_state /\ ~(now - gate_out_start_time >= gate_length_ms))
    /\ midi_out' = NoMessage
    /\ UNCHANGED <<now, midi_event, encoder_click, session_vars, tendencies,
                   generation_vars, param_vars, gate_in_vars, gate_out_start_time,
                   gate_length_ms>>

\* System::Delay(1) and the rest of the loop body: time passes
Delay ==
    /\ pc = "delay"
    /\ \/ now < QuietTime
       \/ /\ now < MaxTime
          /\ learning_state = STATE_LEARNING
          /\ note_buffer_count >= MIN_LEARN_NOTES
    /\ pc' = "midi"
    /\ now' = now + TickMs
    /\ UNCHANGED <<midi_event, midi_out, encoder_click, session_vars, tendencies,
                   generation_vars, param_vars, gate_in_vars, gate_out_vars>>

Next ==
    \/ MidiNoteOn
    \/ MidiNoteOff
    \/ MidiControlChange
    \/ MidiDone
    \/ update_learning_state
    \/ EncoderTurn
    \/ ReadPots
    \/ EncoderClick
    \/ Gate1
    \/ GateOut
    \/ Delay

Spec == Init /\ [][Next]_vars

(***************************************************************************)
(* The same program with the front panel in use                            *)
(***************************************************************************)
PanelNoteOn == NoteOn(PanelPhrases)
PanelControlChange == ControlChange(PanelCCInputs)
PanelEncoderTurn == Encoder(PanelEncoderInputs, PanelPotInputs)
PanelReadPots == Pots(PanelPotInputs)

PanelNext ==
    \/ PanelNoteOn
    \/ MidiNoteOff
    \/ PanelControlChange
    \/ MidiDone
    \/ update_learning_state
    \/ PanelEncoderTurn
    \/ PanelReadPots
    \/ EncoderClick
    \/ Gate1
    \/ GateOut
    \/ Delay

PanelSpec == Init /\ [][PanelNext]_vars

(***************************************************************************)
(* The generation engine on its own: every learned phrase of               *)
(* LearnedBuffers completed under every control vector of ControlVectors,  *)
(* followed by calls of generate_next_note()                               *)
(***************************************************************************)
LearnedBuffers ==
    {<<60, 62, 64, 67, 69>>,
     <<48, 60, 72, 60, 48>>,
     <<0, 0, 0, 0>>,
     <<0, 3, 1, 2>>,
     <<127, 126, 127, 125>>,
     <<0, 127, 0, 127>>,
     <<60, 62, 64, 65, 67, 69, 71, 72, 74, 76, 77, 79, 81, 83, 84, 86>>}

\* the controls the engine reads
EngineParams == {PARAM_MOTION, PARAM_MEMORY, PARAM_REGISTER, PARAM_DIRECTION,
                 PARAM_PHRASE, PARAM_ENERGY, PARAM_RANGE_WIDTH}

\* all controls at 0.0, at 0.5 and at 1.0, and every vector with one engine
\* control at 0.0 or 1.0 and the others at 0.5
ControlVectors ==
    {[i \in 0..(TOTAL_PARAMS - 1) |-> v] : v \in {0, 500, 1000}}
    \cup {[i \in 0..(TOTAL_PARAMS - 1) |-> IF i = k THEN v ELSE 500] :
            k \in EngineParams, v \in {0, 1000}}

\* the values a random_float() call is given in GenSpec (thousandths)
FineRandomFloats == {0, 300, 600, 900, 1000}

\* a session that has just learned phrase and entered GENERATING, with
\* every control settled at the vector P
GeneratingSession(phrase, P) ==
        LET buf == [i \in 0..(MAX_LEARN_NOTES - 1) |->
                       IF i < Len(phrase) THEN phrase[i + 1] ELSE 0]
            T == analyze_learned_notes(buf, Len(phrase))
            start == StartNote(T)
        IN /\ pc = "gate1"
           /\ now = StartTime
           /\ midi_event = NoEvent
           /\ midi_out = NoMessage
           /\ encoder_click = FALSE
           /\ learning_state = STATE_GENERATING
           /\ note_buffer = buf
           /\ note_buffer_count = Len(phrase)
           /\ last_note_time = StartTime
           /\ tendencies = T
           /\ current_note = start
           /\ previous_note = start
           /\ last_interval = 0
           /\ last_direction_up = (T.ascending_count >= T.descending_count)
           /\ note_history = [i \in 0..(NOTE_HISTORY_SIZE - 1) |-> 0]
           /\ note_history_count = 0
           /\ note_history_index = 0
           /\ phrase_note_count = 0
           /\ phrase_target_length = 12
           /\ attempts = 0
           /\ candidate_accepted = FALSE
           /\ candidate_note = 0
           /\ pot_values = [i \in 0..3 |-> P[i]]
           /\ parameters = P
           /\ parameters_smoothed = P
           /\ param_pickup_active = [i \in 0..(TOTAL_PARAMS - 1) |-> i < PARAMS_PER_PAGE]
           /\ pot_last_value = [i \in 0..(TOTAL_PARAMS - 1) |-> P[i % PARAMS_PER_PAGE]]
           /\ current_page = 0
           /\ gate1_state = FALSE
           /\ gate1_prev = FALSE
           /\ note_triggered = FALSE
           /\ gate_out_state = FALSE
           /\ gate_out_start_time = 0
           /\ gate_length_ms = 50

GenInit ==
    \E phrase \in LearnedBuffers, P \in ControlVectors :
        GeneratingSession(phrase, P)

\* a trigger pulse: the call current_note = generate_next_note() of the
\* trigger block and the note it sends
GenerateCall ==
    /\ pc = "gate1"
    /\ note_history_count < MaxGenerated
    /\ TriggerGenerates(TRUE, FALSE, learning_state, note_buffer_count)
    /\ generate_next_note(FineRandomFloats)
    /\ UNCHANGED <<pc, now, midi_event, encoder_click, session_vars, tendencies,
                   param_vars, gate_in_vars>>

GenNext == GenerateCall

GenSpec == GenInit /\ [][GenNext]_vars

(***************************************************************************)
(* Kinds of step, for the properties below                                 *)
(***************************************************************************)
\* the MIDI loop handles a note-on with velocity > 0
NoteOnStep ==
    /\ pc = "midi" /\ pc' = "midi"
    /\ midi_event'.type = "NoteOn"
    /\ midi_event'.velocity > 0

\* the MIDI loop handles a control change
ControlChangeStep ==
    /\ pc = "midi" /\ pc' = "midi"
    /\ midi_event'.type = "ControlChange"

\* the trigger block sees a rising edge of gate input 1
RisingEdgeStep == pc = "gate1" /\ gate1_state' /\ ~gate1_state

\* the encoder click block sees a click
ClickStep == pc = "click" /\ encoder_click'

\* one call of generate_next_note(): one note appended to the history,
\* made the current note and sent with velocity 100
OneNoteGenerated ==
    /\ current_note' \in 0..127
    /\ note_history' = [note_history EXCEPT ![note_history_index] = current_note']
    /\ note_history_index' = (note_history_index + 1) % NOTE_HISTORY_SIZE
    /\ previous_note' = current_note
    /\ midi_out' = <<144, current_note', 100>>
    /\ gate_out_state'

(***************************************************************************)
(* C1  Every note generate_next_note returns, hence every note sent on a   *)
(* trigger and every note kept as current note or in the history, is in    *)
(* 0..127, for every learned buffer and control vector of GenSpec and      *)
(* after every call.                                                       *)
(***************************************************************************)
C1_GeneratedNotesInMidiRange ==
    /\ current_note \in 0..127
    /\ previous_note \in 0..127
    /\ \A i \in 0..(NOTE_HISTORY_SIZE - 1) : note_history[i] \in 0..127
    /\ midi_out # NoMessage => midi_out[2] \in 0..127

\* a note has been generated at the top of the range with every control at 1.0
C1_Witness ==
    /\ note_history_count = MaxGenerated
    /\ current_note = 127
    /\ midi_out = <<144, 127, 100>>
    /\ \A i \in 0..(TOTAL_PARAMS - 1) : parameters_smoothed[i] = 1000

(***************************************************************************)
(* C2  A note-on with velocity > 0 always leaves the session in LEARNING;  *)
(* GENERATING is entered only from LEARNING and only by                    *)
(* update_learning_state when its timeout/buffer-full condition holds;     *)
(* trigger pulses, control changes, pot readings and page turns never      *)
(* change the session state.                                               *)
(***************************************************************************)
C2_SessionTransitions ==
    [][/\ NoteOnStep => learning_state' = STATE_LEARNING
       /\ (learning_state # STATE_GENERATING /\ learning_state' = STATE_GENERATING)
            => /\ learning_state = STATE_LEARNING
               /\ pc = "learn"
               /\ \/ note_buffer_count >= MAX_LEARN_NOTES
                  \/ now - last_note_time > learning_timeout_ms(parameters_smoothed)
       /\ (pc \in {"gate1", "pots", "encoder"} \/ ControlChangeStep)
            => learning_state' = learning_state]_vars

\* generating on a page other than page 0 after a control change switched
\* ECHO on, pot 1 was moved and a trigger pulse arrived
C2_Witness ==
    /\ learning_state = STATE_GENERATING
    /\ current_page # 0
    /\ parameters_smoothed[PARAM_ECHO_NOTES] > 500
    /\ pot_values[0] = 506
    /\ gate1_state
    /\ note_history_count > 0

(***************************************************************************)
(* C3  Once the 16th note is in the buffer the session is GENERATING when  *)
(* update_learning_state of the same pass has run, whatever the time since *)
(* the last note and whatever the timeout.                                 *)
(***************************************************************************)
C3_FullBufferStopsLearning ==
    (note_buffer_count = MAX_LEARN_NOTES /\ pc \notin {"midi", "learn"})
        => learning_state = STATE_GENERATING

\* generating from a full buffer in the pass that received the 16th note,
\* with the default timeout of 2 s
C3_Witness ==
    /\ pc = "encoder"
    /\ learning_state = STATE_GENERATING
    /\ note_buffer_count = MAX_LEARN_NOTES
    /\ now = last_note_time
    /\ parameters_smoothed[PARAM_LEARN_TIMEOUT] = 158

(***************************************************************************)
(* C4  A LEARNING session with fewer than 16 notes becomes GENERATING only *)
(* with at least 4 notes and more than the timeout elapsed since           *)
(* last_note_time; every change the MIDI loop makes to the session sets    *)
(* last_note_time to the present; a session with fewer than 4 notes stays  *)
(* LEARNING in every step.                                                 *)
(***************************************************************************)
C4_TimeoutNeedsMinimum ==
    [][/\ (learning_state = STATE_LEARNING /\ note_buffer_count < MAX_LEARN_NOTES
           /\ learning_state' = STATE_GENERATING)
            => /\ note_buffer_count >= MIN_LEARN_NOTES
               /\ now - last_note_time > learning_timeout_ms(parameters_smoothed)
       /\ (pc = "midi" /\ <<learning_state, note_buffer, note_buffer_count>>'
                            # <<learning_state, note_buffer, note_buffer_count>>)
            => last_note_time' = now
       /\ (learning_state = STATE_LEARNING /\ note_buffer_count < MIN_LEARN_NOTES)
            => learning_state' = STATE_LEARNING]_vars

\* a session of 3 notes still learning 1 s after its last note with the
\* timeout at 500 ms
C4_Witness ==
    /\ learning_state = STATE_LEARNING
    /\ note_buffer_count = 3
    /\ pc = "encoder"
    /\ learning_timeout_ms(parameters_smoothed) = 500
    /\ now - last_note_time >= 2 * 500

(***************************************************************************)
(* C5  A LEARNING session with at least 4 notes that receives no further   *)
(* note-on becomes GENERATING, provided the main loop keeps running and    *)
(* time advances (LiveSpec).                                               *)
(***************************************************************************)
\* the steps the firmware takes by itself: the end of the MIDI loop, the
\* blocks of UpdateControls() behind it and System::Delay(1)
MainLoop ==
    \/ MidiDone
    \/ update_learning_state
    \/ EncoderTurn
    \/ ReadPots
    \/ EncoderClick
    \/ Gate1
    \/ GateOut
    \/ Delay

\* for(;;) in main(): the loop never stops, so a step of it that is due is
\* eventually taken
LiveSpec == Init /\ [][Next]_vars /\ WF_vars(MainLoop)

C5_LearningEventuallyGenerates ==
    (learning_state = STATE_LEARNING /\ note_buffer_count >= MIN_LEARN_NOTES)
        ~> \/ learning_state = STATE_GENERATING
           \/ (midi_event.type = "NoteOn" /\ midi_event.velocity > 0)

\* a session of 5 notes that completed by the default timeout, after the
\* player had stopped
C5_Witness ==
    /\ learning_state = STATE_GENERATING
    /\ note_buffer_count = 5
    /\ pc = "encoder"
    /\ now > QuietTime
    /\ learning_timeout_ms(parameters_smoothed) > 2000
    /\ note_history_count = 0

(***************************************************************************)
(* C6  An encoder click received in GENERATING or in LEARNING sets the     *)
(* session state to IDLE and the note count to 0.                          *)
(***************************************************************************)
C6_ClickResetsSession ==
    [][(ClickStep /\ learning_state \in {STATE_GENERATING, STATE_LEARNING})
         => /\ learning_state' = STATE_IDLE
            /\ note_buffer_count' = 0]_vars

(***************************************************************************)
(* C7  A note-on with velocity > 0 received in IDLE or GENERATING leaves   *)
(* the session LEARNING with that note alone in the buffer; in LEARNING    *)
(* it is appended behind the notes counted so far unless the buffer is     *)
(* full; no other step writes the buffer or raises the count.  Hence the   *)
(* counted notes are always the notes the player sent since the session    *)
(* started, in their order: a prefix of one of the phrases.                *)
(***************************************************************************)
CountedNotesArePhrasePrefix ==
    \E ph \in Phrases :
        /\ Len(ph) >= note_buffer_count
        /\ \A i \in 1..note_buffer_count : note_buffer[i - 1] = ph[i]

C7_FreshBufferPerSession ==
    [][/\ (NoteOnStep /\ learning_state \in {STATE_IDLE, STATE_GENERATING})
            => /\ learning_state' = STATE_LEARNING
               /\ note_buffer_count' = 1
               /\ note_buffer'[0] = midi_event'.note
       /\ (NoteOnStep /\ learning_state = STATE_LEARNING)
            => IF note_buffer_count < MAX_LEARN_NOTES
               THEN /\ note_buffer_count' = note_buffer_count + 1
                    /\ note_buffer' = [note_buffer EXCEPT
                                          ![note_buffer_count] = midi_event'.note]
               ELSE UNCHANGED <<note_buffer, note_buffer_count>>
       /\ ~NoteOnStep
            => /\ note_buffer' = note_buffer
               /\ \/ note_buffer_count' = note_buffer_count
                  \/ (note_buffer_count' = 0 /\ learning_state' = STATE_IDLE)
       /\ CountedNotesArePhrasePrefix']_vars

\* a live injection: the first note of a new session, with the notes of the
\* session before still behind it in the array and its tendencies in use
C7_Witness ==
    /\ learning_state = STATE_LEARNING
    /\ note_buffer_count = 1
    /\ note_buffer[1] # 0
    /\ tendencies.total_intervals > 0
    /\ midi_event.type = "NoteOn"

Emits == midi_out' # NoMessage \/ (gate_out_state' /\ ~gate_out_state)

C9_EmissionSources ==
    [][/\ Emits =>
            \/ /\ RisingEdgeStep
               /\ learning_state = STATE_GENERATING
               /\ note_buffer_count >= MIN_LEARN_NOTES
               /\ midi_out' = <<144, current_note', 100>>
            \/ /\ NoteOnStep
               /\ parameters_smoothed[PARAM_ECHO_NOTES] > 500
               /\ midi_out' = <<144, midi_event'.note, midi_event'.velocity>>
       /\ (parameters_smoothed[PARAM_ECHO_NOTES] <= 500
           /\ learning_state \in {STATE_IDLE, STATE_LEARNING})
            => ~Emits]_vars

\* a live injection with ECHO on: the incoming note is sent back while the
\* notes generated before are still in the history
C9_Witness ==
    /\ pc = "midi"
    /\ midi_event.type = "NoteOn"
    /\ midi_out = <<144, midi_event.note, midi_event.velocity>>
    /\ learning_state = STATE_LEARNING
    /\ note_buffer_count = 1
    /\ note_history_count > 0
    /\ gate_length_ms = 100

(***************************************************************************)
(* C10  The trigger block generates exactly one note when it sees a rising *)
(* edge of gate input 1 while GENERATING, and nothing otherwise (gate held *)
(* high, falling edge, gate low, or session not GENERATING); no other      *)
(* block generates, so an edge seen while not GENERATING is never made up  *)
(* for later.                                                              *)
(***************************************************************************)
C10_OneNotePerRisingEdge ==
    [][/\ pc = "gate1"
            => IF gate1_state' /\ ~gate1_state /\ learning_state = STATE_GENERATING
               THEN /\ OneNoteGenerated
                    /\ note_history_count' =
                           Min(note_history_count + 1, NOTE_HISTORY_SIZE)
               ELSE /\ UNCHANGED generation_vars
                    /\ midi_out' = NoMessage
                    /\ UNCHANGED gate_out_vars
       /\ pc \notin {"gate1", "learn"} => UNCHANGED generation_vars
       /\ pc = "learn"
            => \/ UNCHANGED generation_vars
               \/ /\ learning_state' = STATE_GENERATING
                  /\ note_history_count' = 0]_vars

\* one note was generated by an edge, and the gate has stayed high over the
\* next pass without a second note
C10_Witness ==
    /\ pc = "gateout"
    /\ learning_state = STATE_GENERATING
    /\ gate1_state /\ gate1_prev
    /\ note_history_count = 1
    /\ midi_out = NoMessage

(***************************************************************************)
(* The tendency analysis on its own: analyze_learned_notes() applied to    *)
(* every buffer of AnalysisBuffers                                         *)
(***************************************************************************)
\* notes at both ends of the MIDI range, an octave apart and a step apart
AnalysisNotes == {0, 48, 60, 62, 127}

\* the phrases of DEBUGGING_TENDENCIES.md and TESTING.md
DocumentedPhrases ==
    {<<60, 62, 64, 67, 69>>,
     <<48, 60, 72, 60, 48>>,
     <<60, 62, 64, 65, 67, 69, 71, 72, 74, 76, 77, 79, 81, 83, 84, 86>>}

\* every sequence of 2..MaxAnalysed notes of AnalysisNotes, and the
\* documented phrases
AnalysisBuffers ==
    UNION {[1..n -> AnalysisNotes] : n \in 2..MaxAnalysed} \cup DocumentedPhrases

\* note_buffer holding a phrase from index 0
BufferOf(phrase) ==
    [i \in 0..(MAX_LEARN_NOTES - 1) |-> IF i < Len(phrase) THEN phrase[i + 1] ELSE 0]

\* a learning session that has received the notes of one of the buffers
AnalysisInit ==
    /\ pc = "learn"
    /\ now = StartTime
    /\ midi_event = NoEvent
    /\ midi_out = NoMessage
    /\ encoder_click = FALSE
    /\ learning_state = STATE_LEARNING
    /\ \E phrase \in AnalysisBuffers :
          /\ note_buffer = BufferOf(phrase)
          /\ note_buffer_count = Len(phrase)
    /\ last_note_time = StartTime
    /\ tendencies = LearnedTendencies
    /\ current_note = 60
    /\ previous_note = 60
    /\ last_interval = 0
    /\ last_direction_up = TRUE
    /\ note_history = [i \in 0..(NOTE_HISTORY_SIZE - 1) |-> 0]
    /\ note_history_count = 0
    /\ note_history_index = 0
    /\ phrase_note_count = 0
    /\ phrase_target_length = 12
    /\ attempts = 0
    /\ candidate_accepted = FALSE
    /\ candidate_note = 0
    /\ pot_values \in PotInit
    /\ parameters = [i \in 0..(TOTAL_PARAMS - 1) |->
                        IF i < PARAMS_PER_PAGE THEN pot_values[i]
                        ELSE IF i = PARAM_LEARN_TIMEOUT THEN 158
                        ELSE IF i = PARAM_ECHO_NOTES THEN 0
                        ELSE 500]
    /\ parameters_smoothed = parameters
    /\ param_pickup_active = [i \in 0..(TOTAL_PARAMS - 1) |-> i < PARAMS_PER_PAGE]
    /\ pot_last_value = [i \in 0..(TOTAL_PARAMS - 1) |-> pot_values[i % PARAMS_PER_PAGE]]
    /\ current_page = 0
    /\ gate1_state = FALSE
    /\ gate1_prev = FALSE
    /\ note_triggered = FALSE
    /\ gate_out_state = FALSE
    /\ gate_out_start_time = 0
    /\ gate_length_ms = 50

\* the call analyze_learned_notes()
AnalyseCall ==
    /\ pc = "learn"
    /\ pc' = "analysed"
    /\ \E T \in {analyze_learned_notes(note_buffer, note_buffer_count)} :
          tendencies' = T
    /\ UNCHANGED <<now, midi_event, midi_out, encoder_click, session_vars,
                   generation_vars, param_vars, gate_in_vars, gate_out_vars>>

AnalysisNext == AnalyseCall

AnalysisSpec == AnalysisInit /\ [][AnalysisNext]_vars

\* the pairs of consecutive learned notes
LearnedPairs == 0..(note_buffer_count - 2)

\* the sum of the 13 bins of the histogram
BinSum(counts) ==
    counts[0] + counts[1] + counts[2] + counts[3] + counts[4] + counts[5] + counts[6]
    + counts[7] + counts[8] + counts[9] + counts[10] + counts[11] + counts[12]

(***************************************************************************)
(* C11  After analyze_learned_notes on a sequence of 2 or more notes the   *)
(* bins of interval_counts add up to length - 1, which is also             *)
(* total_intervals, and ascending_count + descending_count + repeat_count  *)
(* is length - 1, each being the number of pairs of its kind.              *)
(***************************************************************************)
C11_IntervalCountsAddUp ==
    pc = "analysed" =>
        /\ BinSum(tendencies.interval_counts) = note_buffer_count - 1
        /\ tendencies.total_intervals = note_buffer_count - 1
        /\ tendencies.ascending_count + tendencies.descending_count
             + tendencies.repeat_count = note_buffer_count - 1
        /\ tendencies.ascending_count =
             Cardinality({i \in LearnedPairs : note_buffer[i + 1] > note_buffer[i]})
        /\ tendencies.descending_count =
             Cardinality({i \in LearnedPairs : note_buffer[i + 1] < note_buffer[i]})
        /\ tendencies.repeat_count =
             Cardinality({i \in LearnedPairs : note_buffer[i + 1] = note_buffer[i]})

\* a sequence with a leap of more than an octave, a repeated note and a
\* descent has been analysed
C11_Witness ==
    /\ pc = "analysed"
    /\ note_buffer_count = MaxAnalysed
    /\ tendencies.interval_counts[12] >= 1
    /\ tendencies.repeat_count >= 1
    /\ tendencies.descending_count >= 1
    /\ \E i \in LearnedPairs : note_buffer[i + 1] - note_buffer[i] > 12

(***************************************************************************)
(* C12  most_common_interval is a bin holding the largest count of the     *)
(* histogram, and every bin of lower index holds a strictly smaller count: *)
(* among equal maxima the lowest index wins.                               *)
(***************************************************************************)
C12_MostCommonIsLowestMaximum ==
    pc = "analysed" =>
        LET counts == tendencies.interval_counts
            most == tendencies.most_common_interval
        IN /\ most \in 0..12
           /\ \A j \in 0..12 : counts[j] <= counts[most]
           /\ \A j \in 0..12 : j < most => counts[j] < counts[most]

\* a histogram with two bins at the maximum has been analysed: the octave
\* and the whole step occur equally often and the whole step is reported
C12_Witness ==
    /\ pc = "analysed"
    /\ tendencies.most_common_interval = 2
    /\ tendencies.interval_counts[12] = tendencies.interval_counts[2]
    /\ tendencies.interval_counts[2] >= 1

(***************************************************************************)
(* C13  After analyze_learned_notes on 2 or more notes register_center is  *)
(* the arithmetic mean of the learned notes (center * count = sum),        *)
(* register_min and register_max are the smallest and the largest learned  *)
(* note and register_range is their difference; 60 62 64 67 69 gives       *)
(* center 64.4, min 60, max 69 and 48 60 72 60 48 gives range 24.          *)
(***************************************************************************)
\* the sum of note_buffer[i .. count-1]
RECURSIVE NoteSumFrom(_)
NoteSumFrom(i) ==
    IF i >= note_buffer_count THEN 0 ELSE note_buffer[i] + NoteSumFrom(i + 1)

LearnedIndices == 0..(note_buffer_count - 1)

C13_RegisterStatistics ==
    pc = "analysed" =>
        /\ tendencies.register_center.den = note_buffer_count
        /\ tendencies.register_center.num = NoteSumFrom(0)
        /\ \A i \in LearnedIndices : tendencies.register_min <= note_buffer[i]
        /\ \E i \in LearnedIndices : tendencies.register_min = note_buffer[i]
        /\ \A i \in LearnedIndices : tendencies.register_max >= note_buffer[i]
        /\ \E i \in LearnedIndices : tendencies.register_max = note_buffer[i]
        /\ tendencies.register_range = tendencies.register_max - tendencies.register_min
        /\ note_buffer = BufferOf(<<60, 62, 64, 67, 69>>) /\ note_buffer_count = 5
             => /\ tendencies.register_center.num * 10 = 644 * tendencies.register_center.den
                /\ tendencies.register_min = 60
                /\ tendencies.register_max = 69
        /\ note_buffer = BufferOf(<<48, 60, 72, 60, 48>>) /\ note_buffer_count = 5
             => tendencies.register_range = 24

\* the second documented phrase has been analysed: its lowest note stands
\* first and last, its highest in the middle
C13_Witness ==
    /\ pc = "analysed"
    /\ note_buffer = BufferOf(<<48, 60, 72, 60, 48>>)
    /\ note_buffer_count = 5
    /\ tendencies.register_range = 24
    /\ tendencies.register_center.num = 288

(***************************************************************************)
(* C14  The tendencies of a completed session are a function of the notes  *)
(* of that session in their order: while GENERATING they equal the         *)
(* analysis of a buffer that holds these notes and nothing else, whatever  *)
(* was learned or generated before and whatever lies in the buffer beyond  *)
(* the count; a session that learned 60 62 64 67 69 always has the         *)
(* documented model.                                                       *)
(***************************************************************************)
\* the notes of the session, in arrival order
CountedNotes == [i \in 1..note_buffer_count |-> note_buffer[i - 1]]

\* DEBUGGING_TENDENCIES.md, Test: Pentatonic Scale
PentatonicTendencies ==
    [interval_counts |-> [k \in 0..12 |-> IF k = 2 THEN 3 ELSE IF k = 3 THEN 1 ELSE 0],
     total_intervals |-> 4,
     ascending_count |-> 4,
     descending_count |-> 0,
     repeat_count |-> 0,
     register_center |-> [num |-> 322, den |-> 5],
     register_range |-> 9,
     register_min |-> 60,
     register_max |-> 69,
     most_common_interval |-> 2,
     second_common_interval |-> 3]

C14_TendenciesDependOnSessionOnly ==
    learning_state = STATE_GENERATING =>
        /\ tendencies = analyze_learned_notes(BufferOf(CountedNotes), note_buffer_count)
        /\ tendencies = analyze_learned_notes(note_buffer, note_buffer_count)
        /\ CountedNotes = <<60, 62, 64, 67, 69>> => tendencies = PentatonicTendencies

\* the pentatonic phrase was learned by live injection: behind its 5 notes
\* the buffer still holds the notes of the 16-note session before
C14_Witness ==
    /\ learning_state = STATE_GENERATING
    /\ CountedNotes = <<60, 62, 64, 67, 69>>
    /\ note_buffer[15] = 86
    /\ tendencies = PentatonicTendencies

\* the trigger block calls generate_next_note() in this step
GenerationStep == pc = "gate1" /\ midi_out' # NoMessage

\* the candidates the loop of the last call evaluated
EvaluatedCount == attempts + (IF candidate_accepted THEN 1 ELSE 0)

(***************************************************************************)
(* C15  Every call of generate_next_note ends after evaluating at most 4   *)
(* candidates.  The loop ends on the first candidate apply_memory_bias     *)
(* accepts, after at most 3 rejections, and that candidate is the note     *)
(* returned.  If the first 4 candidates are all rejected the note returned *)
(* is the 4th of them, a candidate the memory bias can reject, and no 5th  *)
(* is drawn.                                                               *)
(***************************************************************************)
C15_AtMostFourCandidates ==
    [][GenerationStep =>
        /\ attempts' \in 0..4
        /\ EvaluatedCount' \in 1..4
        /\ current_note' = candidate_note'
        /\ candidate_accepted' =>
              /\ attempts' <= 3
              /\ TRUE \in apply_memory_bias(FineRandomFloats, parameters_smoothed,
                                            note_history, note_history_count,
                                            candidate_note')
        /\ ~candidate_accepted' =>
              /\ attempts' = 4
              /\ FALSE \in apply_memory_bias(FineRandomFloats, parameters_smoothed,
                                             note_history, note_history_count,
                                             candidate_note')]_vars

\* a call whose first four candidates were all rejected and which returned
\* the fourth
C15_Witness ==
    /\ note_history_count = 2
    /\ attempts = 4
    /\ ~candidate_accepted
    /\ candidate_note = current_note
    /\ note_history[1] = current_note

\* occurrences of a note in the history as it is before this step
Occurrences(note) == count_in_history(note_history, note_history_count, note)

\* the energy-adjusted MEMORY lies in the neutral band 0.4..0.6
NeutralMemory == memory_param(parameters_smoothed) \in 400..600

(***************************************************************************)
(* C16  A candidate that does not occur in note_history is accepted on the *)
(* first evaluation at every MEMORY and ENERGY setting, and when the       *)
(* energy-adjusted MEMORY lies in the band 0.4..0.6 every candidate is     *)
(* accepted on the first evaluation whatever its count in the history: a   *)
(* call then ends with its first candidate accepted.                       *)
(***************************************************************************)
C16_AbsentOrNeutralAccepted ==
    [][GenerationStep =>
        /\ Occurrences(candidate_note') = 0 => candidate_accepted'
        /\ NeutralMemory => candidate_accepted' /\ attempts' = 0]_vars

(***************************************************************************)
(* C17  With a populated history and neutral ENERGY, a candidate that      *)
(* occurs in the history is always accepted at MEMORY = 1.0, so that a     *)
(* call ends with its first candidate; at MEMORY = 0.0 it is accepted with *)
(* weight 1 - occurrences/8, and a note that fills all 8 slots of the      *)
(* history is never accepted.                                              *)
(***************************************************************************)
C17_MemoryExtremes ==
    [][GenerationStep /\ note_history_count > 0
         /\ parameters_smoothed[PARAM_ENERGY] = 500 =>
        /\ parameters_smoothed[PARAM_MEMORY] = 1000 =>
              candidate_accepted' /\ attempts' = 0
        /\ parameters_smoothed[PARAM_MEMORY] = 0 =>
              /\ acceptance_probability(parameters_smoothed, note_history,
                                        note_history_count, candidate_note')
                   = Scale - (Occurrences(candidate_note') * Scale) \div NOTE_HISTORY_SIZE
              /\ Occurrences(candidate_note') = NOTE_HISTORY_SIZE =>
                    ~candidate_accepted']_vars

\* update_learning_state ends the session in this step
LearningEndsStep ==
    learning_state = STATE_LEARNING /\ learning_state' = STATE_GENERATING

\* the history buffer holds no note
HistoryEmpty ==
    /\ note_history_count = 0
    /\ note_history_index = 0
    /\ \A i \in 0..(NOTE_HISTORY_SIZE - 1) : note_history[i] = 0

(***************************************************************************)
(* C18  On every LEARNING to GENERATING transition, and in the same step,  *)
(* in which no note is generated: the tendencies are recomputed from the   *)
(* notes counted in the buffer, current_note and previous_note are the     *)
(* integer part of register_center, which lies between register_min and    *)
(* register_max, note_history is emptied, phrase_note_count is 0 and       *)
(* last_interval is 0.                                                     *)
(***************************************************************************)
C18_GenerationStateReset ==
    [][LearningEndsStep =>
        /\ tendencies' = analyze_learned_notes(note_buffer, note_buffer_count)
        /\ UNCHANGED <<note_buffer, note_buffer_count>>
        /\ current_note' * tendencies'.register_center.den
              <= tendencies'.register_center.num
        /\ tendencies'.register_center.num
              < (current_note' + 1) * tendencies'.register_center.den
        /\ previous_note' = current_note'
        /\ tendencies'.register_min <= current_note'
        /\ current_note' <= tendencies'.register_max
        /\ HistoryEmpty'
        /\ phrase_note_count' = 0
        /\ last_interval' = 0
        /\ midi_out' = NoMessage]_vars

\* a second session has just ended: the note generated in the first one has
\* gone from the history and the start note is the integer part of the
\* centre 64.4 of the pentatonic phrase
C18_Witness ==
    /\ pc = "encoder"
    /\ learning_state = STATE_GENERATING
    /\ candidate_accepted
    /\ HistoryEmpty
    /\ tendencies.register_center = [num |-> 322, den |-> 5]
    /\ current_note = 64
    /\ previous_note = 64
    /\ candidate_note # 64

\* select_interval_from_distribution returns its default for an empty
\* histogram: if(tendencies.total_intervals == 0) return 2
EmptyHistogramDefault(T) == T.total_intervals = 0

\* the model generate_next_note reads is the analysis of the learning buffer
ModelOfBuffer ==
    /\ tendencies = analyze_learned_notes(note_buffer, note_buffer_count)
    /\ tendencies.total_intervals = note_buffer_count - 1
    /\ tendencies.total_intervals >= 3

\* the trigger block has just called generate_next_note() and sent the note
NoteJustGenerated == pc = "gateout" /\ midi_out # NoMessage

(***************************************************************************)
(* C19  Whenever the session is GENERATING, the tendencies equal the       *)
(* analysis of the current learning buffer, with total_intervals =         *)
(* note_buffer_count - 1 >= 3.  Every call of generate_next_note is made   *)
(* in such a state, so it never reads an empty model and                   *)
(* select_interval_from_distribution never returns its empty-histogram     *)
(* default.                                                                *)
(***************************************************************************)
C19_ModelValidWhileGenerating ==
    /\ learning_state = STATE_GENERATING => ModelOfBuffer
    /\ NoteJustGenerated =>
          /\ learning_state = STATE_GENERATING
          /\ ModelOfBuffer
          /\ ~EmptyHistogramDefault(tendencies)

\* a note has been generated from the model of the five-note phrase
C19_Witness ==
    /\ learning_state = STATE_GENERATING
    /\ note_history_count = 1
    /\ NoteJustGenerated
    /\ CountedNotes = <<60, 62, 64, 67, 69>>
    /\ tendencies.total_intervals = 4
    /\ ModelOfBuffer

(***************************************************************************)
(* The energy scaling: a generating session under every combination of a   *)
(* level of ENERGY and a level of the other controls, and the calls of     *)
(* generate_next_note() that apply the scaling                             *)
(***************************************************************************)
\* the levels of a control, 0.0 to 1.0 in steps of 0.05
ControlLevels == {50 * k : k \in 0..20}

\* ENERGY at one level and every other control at another: each adjusted
\* value depends on its own control and on ENERGY only
EnergyVectors ==
    {[i \in 0..(TOTAL_PARAMS - 1) |-> IF i = PARAM_ENERGY THEN e ELSE v] :
       e \in ControlLevels, v \in ControlLevels}

EnergyInit ==
    \E P \in EnergyVectors : GeneratingSession(<<60, 62, 64, 67, 69>>, P)

EnergyCall ==
    /\ pc = "gate1"
    /\ note_history_count < MaxPulses
    /\ TriggerGenerates(TRUE, FALSE, learning_state, note_buffer_count)
    /\ generate_next_note(RandomFloats)
    /\ UNCHANGED <<pc, now, midi_event, encoder_click, session_vars, tendencies,
                   param_vars, gate_in_vars>>

EnergyNext == EnergyCall

EnergySpec == EnergyInit /\ [][EnergyNext]_vars

\* the control vector with ENERGY set to e
WithEnergy(P, e) == [P EXCEPT ![PARAM_ENERGY] = e]

\* the values raised by ENERGY do not fall and the values lowered by it do
\* not rise from control vector P1 to control vector P2
EnergyOrdered(P1, P2) ==
    /\ motion_bias(P1) <= motion_bias(P2)
    /\ phrase_param(P1) <= phrase_param(P2)
    /\ PhraseTarget(P1) <= PhraseTarget(P2)
    /\ range_param(P1) <= range_param(P2)
    /\ memory_param(P1) >= memory_param(P2)
    /\ energy_gravity(P1) >= energy_gravity(P2)

\* every energy-adjusted value of control vector P lies in 0.0..1.0
AdjustedInRange(P) ==
    /\ motion_bias(P) \in 0..Scale
    /\ phrase_param(P) \in 0..Scale
    /\ range_param(P) \in 0..Scale
    /\ memory_param(P) \in 0..Scale
    /\ energy_gravity(P) \in 0..Scale

(***************************************************************************)
(* C20  With the other controls fixed, raising ENERGY never lowers the     *)
(* energy-adjusted MOTION, PHRASE value, phrase_target_length or           *)
(* RANGE_WIDTH and never raises the energy-adjusted MEMORY or the register *)
(* gravity before the phrase boost; every adjusted value stays in          *)
(* 0.0..1.0, and the phrase_target_length a call stores is the one the     *)
(* adjusted PHRASE value gives, between 4 and 32.                          *)
(***************************************************************************)
C20_EnergyIsConsistentMacro ==
    /\ AdjustedInRange(parameters_smoothed)
    /\ \A lower \in ControlLevels :
          lower <= parameters_smoothed[PARAM_ENERGY] =>
             EnergyOrdered(WithEnergy(parameters_smoothed, lower), parameters_smoothed)
    /\ \A higher \in ControlLevels :
          higher >= parameters_smoothed[PARAM_ENERGY] =>
             EnergyOrdered(parameters_smoothed, WithEnergy(parameters_smoothed, higher))
    /\ note_history_count > 0 =>
          /\ phrase_target_length = PhraseTarget(parameters_smoothed)
          /\ phrase_target_length \in 4..32

\* a note generated at full ENERGY with the other controls at 0.5: MOTION
\* and RANGE_WIDTH raised to 0.8, PHRASE to 0.7 (target 23 against 18),
\* MEMORY and gravity lowered to 0.2
C20_Witness ==
    /\ note_history_count = 1
    /\ parameters_smoothed[PARAM_ENERGY] = 1000
    /\ parameters_smoothed[PARAM_PHRASE] = 500
    /\ motion_bias(parameters_smoothed) = 800
    /\ range_param(parameters_smoothed) = 800
    /\ phrase_param(parameters_smoothed) = 700
    /\ phrase_target_length = 23
    /\ PhraseTarget(WithEnergy(parameters_smoothed, 500)) = 18
    /\ memory_param(parameters_smoothed) = 200
    /\ energy_gravity(parameters_smoothed) = 200

\* the distance of the note generated in this step from the current note
\* it was generated from
Leap == Abs(current_note' - current_note)

(***************************************************************************)
(* C21  A generated note is never displaced by an octave when the          *)
(* energy-adjusted RANGE_WIDTH is below 0.1: it then differs from the      *)
(* previous current_note by at most 12 semitones.  When the adjusted value *)
(* is below 0.5 the difference is at most 24 semitones, and in all cases   *)
(* at most 36.                                                             *)
(***************************************************************************)
C21_LeapBoundedByRange ==
    [][GenerationStep =>
        /\ range_param(parameters_smoothed) < 100 => Leap <= 12
        /\ range_param(parameters_smoothed) < 500 => Leap <= 24
        /\ Leap <= 36]_vars

\* a twelve-semitone step generated with RANGE_WIDTH at 0.0, where nothing
\* is displaced
C21_Witness ==
    /\ note_history_count > 0
    /\ parameters_smoothed[PARAM_RANGE_WIDTH] = 0
    /\ parameters_smoothed[PARAM_ENERGY] = 500
    /\ range_param(parameters_smoothed) < 100
    /\ Abs(current_note - previous_note) = 12

\* the MIDI loop handles a note-off, or a note-on with velocity 0
NoteOffStep ==
    /\ pc = "midi" /\ pc' = "midi"
    /\ \/ midi_event'.type = "NoteOff"
       \/ midi_event'.type = "NoteOn" /\ midi_event'.velocity = 0

(***************************************************************************)
(* C22  A note-on with velocity 0, and a note-off, never changes the       *)
(* session state, the learning buffer, the note count or the time of the   *)
(* last note: it neither starts a session from IDLE, nor appends a note in *)
(* LEARNING, nor restarts learning in GENERATING; nothing is echoed and    *)
(* the generation state is left alone.                                     *)
(***************************************************************************)
C22_NoteOffChangesNothing ==
    [][NoteOffStep =>
        /\ UNCHANGED <<learning_state, note_buffer, note_buffer_count, last_note_time>>
        /\ UNCHANGED <<tendencies, generation_vars>>
        /\ midi_out' = NoMessage]_vars

\* a note-on with velocity 0 has arrived in a session that has generated a
\* note from a full buffer, and the session goes on generating
C22_Witness ==
    /\ pc = "midi"
    /\ midi_event.type = "NoteOn"
    /\ midi_event.velocity = 0
    /\ learning_state = STATE_GENERATING
    /\ note_buffer_count = MAX_LEARN_NOTES
    /\ note_history_count = 1

\* the controls that are laid out on the pages and mapped to controllers
\* and that no function of the engine reads
UnreadParams == {PARAM_STABILITY, PARAM_FORGETFULNESS, PARAM_LEAP_SHAPE,
                 PARAM_DIRECTION_MEMORY, PARAM_HOME_REGISTER}

\* a generating session under every setting of the unread controls at 0.0
\* or 1.0, with the controls the engine reads all at 0.0, at 0.5 or at 1.0,
\* and the calls of generate_next_note() made in it
UnreadVectors ==
    {[i \in 0..(TOTAL_PARAMS - 1) |-> IF i \in UnreadParams THEN u[i] ELSE v] :
       u \in [UnreadParams -> {0, Scale}], v \in {0, 500, Scale}}

UnreadInit ==
    \E P \in UnreadVectors : GeneratingSession(<<60, 62, 64, 67, 69>>, P)

UnreadCall ==
    /\ pc = "gate1"
    /\ note_history_count < MaxPulses
    /\ TriggerGenerates(TRUE, FALSE, learning_state, note_buffer_count)
    /\ generate_next_note(RandomFloats)
    /\ UNCHANGED <<pc, now, midi_event, encoder_click, session_vars, tendencies,
                   param_vars, gate_in_vars>>

UnreadNext == UnreadCall

UnreadSpec == UnreadInit /\ [][UnreadNext]_vars

\* the control vector P with the unread controls at 0.0
WithoutUnread(P) ==
    [i \in 0..(TOTAL_PARAMS - 1) |-> IF i \in UnreadParams THEN 0 ELSE P[i]]

\* the sets of values the random_float() calls of one call can be given
DrawSets == SUBSET RandomFloats \ {{}}

\* everything a call of generate_next_note() in the current state can
\* leave behind under control vector P when its draws come from R: the
\* outcomes of the loop, the phrase target and the phrase counts
CallResults(R, P) ==
    <<LoopOutcomes(R, P, tendencies, current_note, note_history,
                   note_history_count, phrase_note_count, PhraseTarget(P)),
      PhraseTarget(P),
      PhraseCounts(R, phrase_note_count, PhraseTarget(P))>>

RegisterAloneAtZero ==
    \A i \in 0..(TOTAL_PARAMS - 1) :
        parameters_smoothed[i] = IF i = PARAM_REGISTER THEN 0 ELSE 500

(***************************************************************************)
(* C24  REGISTER controls octave displacement: with REGISTER at 0.0 and    *)
(* every other control at 0.5 no generated note is displaced by an octave, *)
(* so that every generated note differs from the previous current_note by  *)
(* at most 12 semitones.                                                   *)
(***************************************************************************)
C24_RegisterZeroNoDisplacement ==
    [][GenerationStep /\ RegisterAloneAtZero => Leap <= 12]_vars

(***************************************************************************)
(* Soft takeover: the front panel and a MIDI controller used together in   *)
(* an idle instrument.  MOTION is set by controller 3, pot 1 is moved      *)
(* between the passes of the main loop, the encoder is turned either way   *)
(* and clicked.                                                            *)
(***************************************************************************)
\* <<cc_number, cc_value>>: MOTION to 102/127, about 0.8
TakeoverCCInputs == {<<3, 102>>}
TakeoverEncoderInputs == IF InputsOpen THEN {-1, 0, 1} ELSE {0}
\* pot 1 at 0.5, just below the value the controller sets, or at 1.0
TakeoverPotInputs ==
    IF InputsOpen
    THEN {[i \in 0..3 |-> IF i = 0 THEN v ELSE 500] : v \in {500, 790, 1000}}
    ELSE {pot_values}

TakeoverControlChange == ControlChange(TakeoverCCInputs)
\* the pots stand still between the reading of one pass and the page
\* change of the next
TakeoverEncoderTurn == Encoder(TakeoverEncoderInputs, {pot_values})
TakeoverReadPots == Pots(TakeoverPotInputs)

TakeoverNext ==
    \/ TakeoverControlChange
    \/ MidiDone
    \/ update_learning_state
    \/ TakeoverEncoderTurn
    \/ TakeoverReadPots
    \/ EncoderClick
    \/ Gate1
    \/ GateOut
    \/ Delay

TakeoverSpec == Init /\ [][TakeoverNext]_vars

\* the block that reads the pots runs in this step
PotsStep == pc = "pots" /\ pc' = "click"

\* the pot is within the pickup threshold of the stored value
NearStored(pot_value, stored_value) ==
    Abs(pot_value - stored_value) < PICKUP_THRESHOLD

\* the pot has moved across the stored value, or onto it, between two
\* readings
CrossedStored(last_pot, pot_value, stored_value) ==
    \/ last_pot <= stored_value /\ pot_value >= stored_value
    \/ last_pot >= stored_value /\ pot_value <= stored_value

\* parameter k is given a new value in this step, and the pot that has
\* been read for it has come within the threshold of the stored value or
\* has crossed it since its last reading
CaughtByPot(k) ==
    /\ OnPage(current_page, k)
    /\ \/ NearStored(pot_values'[k % PARAMS_PER_PAGE], parameters[k])
       \/ CrossedStored(pot_values[k % PARAMS_PER_PAGE],
                        pot_values'[k % PARAMS_PER_PAGE], parameters[k])

\* the page shown changes in this step
PageChangeStep == current_page' # current_page

(***************************************************************************)
(* C25  After a MIDI CC sets a parameter, the parameter holds the CC value *)
(* with its pickup inactive, and no pot reading overwrites a parameter     *)
(* whose pickup is inactive until the pot comes within the 5% pickup       *)
(* threshold of the stored value or crosses it.                            *)
(***************************************************************************)
C25_ControllerValueHeld ==
    [][/\ ControlChangeStep =>
            \A k \in 0..(TOTAL_PARAMS - 1) :
               midi_cc_numbers[k] = midi_event'.cc_number =>
                  /\ parameters'[k] = Round(midi_event'.cc_value * Scale, 127)
                  /\ ~param_pickup_active'[k]
       /\ ~ControlChangeStep =>
            \A k \in 0..(TOTAL_PARAMS - 1) :
               ~param_pickup_active[k] /\ parameters'[k] # parameters[k] =>
                  PotsStep /\ CaughtByPot(k)]_vars

(***************************************************************************)
(* C26  Parameters do not jump when pages are switched: a page change, by  *)
(* the encoder turned either way, with wrap-around, or by an encoder click *)
(* that returns to page 0, changes no stored parameter, and afterwards,    *)
(* as at any time, a stored parameter of the page shown keeps its value    *)
(* until its pot comes within the pickup threshold of it or crosses it.    *)
(***************************************************************************)
C26_NoJumpOnPageChange ==
    [][/\ PageChangeStep => parameters' = parameters
       /\ PotsStep =>
            \A k \in 0..(TOTAL_PARAMS - 1) :
               parameters'[k] # parameters[k] => CaughtByPot(k)]_vars

\* ---------------------------------------------------------------------
\* Phrase tracking: one call of generate_next_note() at every point of a
\* phrase

\* the largest phrase_note_count a call is made at
MaxPhraseCount == 10

\* MOTION at 0.0 with ENERGY at or below the middle, where a generated note
\* can repeat the one before it; PHRASE and ENERGY give the targets 4, 5, 11,
\* 26 and 32, REGISTER gives every register gravity
PhraseVectors ==
    {[i \in 0..(TOTAL_PARAMS - 1) |->
        IF i = PARAM_MOTION THEN 0
        ELSE IF i = PARAM_PHRASE THEN ph
        ELSE IF i = PARAM_ENERGY THEN en
        ELSE IF i = PARAM_REGISTER THEN rg
        ELSE 500] :
       ph \in {0, 250, 1000}, en \in {0, 500}, rg \in {0, 500, 1000}}

\* the generating session n calls of generate_next_note() after its start,
\* when every call returned the start note at its first attempt and none
\* reset the phrase counter; the gate pulse of the last note has ended
MidPhrase(n, P) ==
    LET phrase == <<60, 62, 64, 67, 69>>
        buf == [i \in 0..(MAX_LEARN_NOTES - 1) |->
                   IF i < Len(phrase) THEN phrase[i + 1] ELSE 0]
        T == analyze_learned_notes(buf, Len(phrase))
        start == StartNote(T)
        held == Min(n, NOTE_HISTORY_SIZE)
    IN /\ pc = "gate1"
       /\ now = StartTime
       /\ midi_event = NoEvent
       /\ midi_out = NoMessage
       /\ encoder_click = FALSE
       /\ learning_state = STATE_GENERATING
       /\ note_buffer = buf
       /\ note_buffer_count = Len(phrase)
       /\ last_note_time = StartTime
       /\ tendencies = T
       /\ current_note = start
       /\ previous_note = start
       /\ last_interval = 0
       /\ last_direction_up = (n = 0 /\ T.ascending_count >= T.descending_count)
       /\ note_history = [i \in 0..(NOTE_HISTORY_SIZE - 1) |->
                             IF i < held THEN start ELSE 0]
       /\ note_history_count = held
       /\ note_history_index = n % NOTE_HISTORY_SIZE
       /\ phrase_note_count = n
       /\ phrase_target_length = (IF n = 0 THEN 12 ELSE PhraseTarget(P))
       /\ attempts = (IF n = 0 THEN 0 ELSE 1)
       /\ candidate_accepted = (n > 0)
       /\ candidate_note = (IF n = 0 THEN 0 ELSE start)
       /\ pot_values = [i \in 0..3 |-> P[i]]
       /\ parameters = P
       /\ parameters_smoothed = P
       /\ param_pickup_active = [i \in 0..(TOTAL_PARAMS - 1) |-> i < PARAMS_PER_PAGE]
       /\ pot_last_value = [i \in 0..(TOTAL_PARAMS - 1) |-> P[i % PARAMS_PER_PAGE]]
       /\ current_page = 0
       /\ gate1_state = FALSE
       /\ gate1_prev = FALSE
       /\ note_triggered = FALSE
       /\ gate_out_state = FALSE
       /\ gate_out_start_time = 0
       /\ gate_length_ms = 50

PhraseInit ==
    \E n \in 0..MaxPhraseCount, P \in PhraseVectors : MidPhrase(n, P)

\* the next trigger pulse, arriving with the gate output low
PhraseCall ==
    /\ pc = "gate1"
    /\ ~gate_out_state
    /\ TriggerGenerates(TRUE, FALSE, learning_state, note_buffer_count)
    /\ generate_next_note(RandomFloats)
    /\ UNCHANGED <<pc, now, midi_event, encoder_click, session_vars, tendencies,
                   param_vars, gate_in_vars>>

PhraseNext == PhraseCall

PhraseSpec == PhraseInit /\ [][PhraseNext]_vars

\* C27: every call of generate_next_note() leaves phrase_target_length
\* between 4 and 32 (it is 12 when the session starts generating); the
\* call resets phrase_note_count to 0 only when the incremented count has
\* reached the target, and otherwise the count grows by exactly 1.
C27_PhraseCounterAndTarget ==
    [][/\ note_history_count = 0 => phrase_target_length = 12
       /\ GenerationStep =>
            /\ phrase_target_length' \in 4..32
            /\ phrase_note_count' \in {0, phrase_note_count + 1}
            /\ phrase_note_count' = 0 =>
                 phrase_note_count + 1 >= phrase_target_length']_vars

\* a call has just reset the counter of a phrase that had reached its
\* target, and one has just counted a note of an unfinished phrase
C27_Witness ==
    /\ midi_out # NoMessage
    /\ phrase_note_count = 0
    /\ note_history_count >= 4
    /\ phrase_target_length = 4

\* the next trigger pulse can leave phrase_note_count at c
CallCanLeave(c) == ENABLED (PhraseCall /\ phrase_note_count' = c)

\* the incremented count of the next call is at or beyond the target the
\* call computes
AtOrBeyondTarget ==
    phrase_note_count + 1 >= PhraseTarget(parameters_smoothed)

AddedGravity ==
    LET P == parameters_smoothed
        target == PhraseTarget(P)
    IN Min(Scale, energy_gravity(P) + gravity_boost(phrase_note_count, target))
         - energy_gravity(P)

\* C29: in every generation state the phrase-end boost added to the
\* effective register gravity is 0 while the phrase progress is at most 0.7
\* and is never more than 0.3.
C29_PhraseBoostBounded ==
    learning_state = STATE_GENERATING =>
        /\ AddedGravity <= 300
        /\ phrase_progress(phrase_note_count,
                           PhraseTarget(parameters_smoothed)) <= 700
             => AddedGravity = 0

\* the interval sizes select_interval_from_distribution() returns: the bins
\* of interval_counts (the fallback 2 is one of them)
SampledSizes == 0..12

\* the MOTION rescaling of the sampled size under control vector P, coin r
RescaledWithin(P, sampled, r) ==
    LET size == motion_interval(P, sampled, r)
    IN /\ size \in 0..12
       /\ motion_bias(P) < 500 =>
            \/ size <= sampled
            \/ sampled = 0 /\ size = 1
       /\ motion_bias(P) = 0 => size \in {0, 1}
       /\ motion_bias(P) >= 500 =>
            /\ size >= sampled
            /\ size <= sampled + 4

\* C30: after the MOTION rescaling the interval size is always in 0..12;
\* with an adjusted MOTION below 0.5 it is never larger than the sampled
\* interval (except for a 0 promoted to 1) and at adjusted MOTION 0 it is
\* always 0 or 1; with an adjusted MOTION of 0.5 or more it is never
\* smaller than the sampled interval and exceeds it by at most 4.
C30_MotionRescalingBounded ==
    \A sampled \in SampledSizes, r \in RandomFloats :
        RescaledWithin(parameters_smoothed, sampled, r)

\* a call at full adjusted MOTION has just moved by the learned major
\* second and the boost of 4, and the sampled sizes of the session are bins
C30_Witness ==
    /\ midi_out # NoMessage
    /\ motion_bias(parameters_smoothed) = Scale
    /\ Abs(current_note - previous_note) = 6
    /\ {select_interval_from_distribution(tendencies, r) : r \in RandomFloats}
         \subseteq SampledSizes

\* ---------------------------------------------------------------------
\* Sampling of the interval histogram

\* values of random_float() in steps of 0.05: with at most 15 learned
\* intervals every bin of the histogram is at least 1/15 wide, so every
\* bin that can be drawn is drawn by one of them
IntervalDraws == {50 * k : k \in 0..20}

\* C31: with a non-empty histogram select_interval_from_distribution()
\* returns only bins whose count is non-zero, and every bin with a non-zero
\* count can be returned.
C31_SampledIntervalWasLearned ==
    (learning_state = STATE_GENERATING /\ tendencies.total_intervals > 0) =>
        /\ \A r \in IntervalDraws :
              tendencies.interval_counts[
                  select_interval_from_distribution(tendencies, r)] > 0
        /\ \A i \in 0..12 :
              tendencies.interval_counts[i] > 0 =>
                 \E r \in IntervalDraws :
                    select_interval_from_distribution(tendencies, r) = i

\* ---------------------------------------------------------------------
\* Direction selection

\* base_probability and final_probability of the select_direction() call
\* the next trigger makes from the current state
BaseNow == base_probability(parameters_smoothed, tendencies)

FinalNow ==
    final_probability(parameters_smoothed, tendencies, current_note,
                      phrase_note_count, PhraseTarget(parameters_smoothed))

\* current_note lies above / below register_center
AboveCenter ==
    current_note * tendencies.register_center.den > tendencies.register_center.num

BelowCenter ==
    current_note * tendencies.register_center.den < tendencies.register_center.num

\* C32: in select_direction() the ascending probability before gravity is
\* ascending / (ascending + descending) at DIRECTION 0.5 (0.5 without
\* directional data), 1 at DIRECTION 1.0 and 0 at DIRECTION 0.0; register
\* gravity shifts it by at most 0.5, downward only when current_note is
\* above register_center and upward only when it is below, and the result
\* is clamped to 0.0..1.0.
C32_DirectionProbability ==
    learning_state = STATE_GENERATING =>
        LET directional == tendencies.ascending_count + tendencies.descending_count
            direction == parameters_smoothed[PARAM_DIRECTION]
        IN /\ (direction = 500 /\ directional > 0) =>
                 BaseNow = Round(tendencies.ascending_count * Scale, directional)
           /\ (direction = 500 /\ directional = 0) => BaseNow = 500
           /\ direction = Scale => BaseNow = Scale
           /\ direction = 0 => BaseNow = 0
           /\ Abs(FinalNow - BaseNow) <= 500
           /\ FinalNow < BaseNow => AboveCenter
           /\ FinalNow > BaseNow => BelowCenter
           /\ FinalNow \in 0..Scale

\* a generated note stands above the centre of a phrase that only rises,
\* and gravity lowers the learned ascending probability of 1.0 for the
\* next call
C32_Witness ==
    /\ midi_out # NoMessage
    /\ parameters_smoothed[PARAM_DIRECTION] = 500
    /\ tendencies.descending_count = 0
    /\ tendencies.ascending_count > 0
    /\ AboveCenter
    /\ BaseNow = Scale
    /\ FinalNow < BaseNow

\* ---------------------------------------------------------------------
\* The histogram and the two most common intervals

\* the pairs of consecutive learned notes whose distance, saturated at the
\* octave, is k
PairsOfSize(k) ==
    {i \in LearnedPairs : Min(Abs(note_buffer[i + 1] - note_buffer[i]), 12) = k}

\* C33: for a buffer of 2 or more notes interval_counts[k] is the number of
\* consecutive pairs whose absolute difference, saturated at 12, is k, and
\* the ascending, descending and repeat counts are the numbers of pairs
\* with a positive, negative and zero difference, so that repeat_count is
\* interval_counts[0]; 48 60 72 60 48 gives interval_counts[12] = 4,
\* 2 ascending and 2 descending pairs.
C33_HistogramCountsPairs ==
    pc = "analysed" =>
        /\ \A k \in 0..12 :
              tendencies.interval_counts[k] = Cardinality(PairsOfSize(k))
        /\ tendencies.ascending_count =
             Cardinality({i \in LearnedPairs : note_buffer[i + 1] - note_buffer[i] > 0})
        /\ tendencies.descending_count =
             Cardinality({i \in LearnedPairs : note_buffer[i + 1] - note_buffer[i] < 0})
        /\ tendencies.repeat_count =
             Cardinality({i \in LearnedPairs : note_buffer[i + 1] - note_buffer[i] = 0})
        /\ tendencies.repeat_count = tendencies.interval_counts[0]
        /\ note_buffer = BufferOf(<<48, 60, 72, 60, 48>>) /\ note_buffer_count = 5
             => /\ tendencies.interval_counts[12] = 4
                /\ tendencies.ascending_count = 2
                /\ tendencies.descending_count = 2

\* a buffer with a rise of more than an octave, a fall of a whole step and
\* a repeated note has been analysed
C33_Witness ==
    /\ pc = "analysed"
    /\ note_buffer_count = 4
    /\ \E i \in LearnedPairs : note_buffer[i + 1] - note_buffer[i] > 12
    /\ tendencies.interval_counts[12] = 1
    /\ tendencies.interval_counts[2] = 1
    /\ tendencies.descending_count = 1
    /\ tendencies.repeat_count = 1

\* C34: second_common_interval is the bin with the highest count among the
\* bins other than most_common_interval, the lowest index winning ties, and
\* so it is never the bin most_common_interval.
C34_SecondCommonIsRunnerUp ==
    pc = "analysed" =>
        LET counts == tendencies.interval_counts
            most == tendencies.most_common_interval
            second == tendencies.second_common_interval
            others == (0..12) \ {most}
        IN /\ second \in others
           /\ \A j \in others : counts[j] <= counts[second]
           /\ \A j \in others : j < second => counts[j] < counts[second]

\* ---------------------------------------------------------------------
\* The note history

\* the notes the circular buffer holds, oldest first
HistoryNotes(hist, hcount, hindex) ==
    [k \in 1..hcount |->
        hist[(hindex + NOTE_HISTORY_SIZE - hcount + k - 1) % NOTE_HISTORY_SIZE]]

\* the last NOTE_HISTORY_SIZE elements of a sequence
LastNotes(seq) ==
    IF Len(seq) <= NOTE_HISTORY_SIZE THEN seq
    ELSE SubSeq(seq, Len(seq) - NOTE_HISTORY_SIZE + 1, Len(seq))

\* C35: note_history holds the last min(n, 8) notes generated since the
\* GENERATING phase began: the phase begins with an empty history, every
\* generated note is appended once, the 9th and later notes displace the
\* oldest, nothing else changes the history, note_history_count never
\* exceeds 8 and the newest entry of a non-empty history is current_note.
C35_HistoryHoldsLastNotes ==
    [][LET before == HistoryNotes(note_history, note_history_count,
                                  note_history_index)
           after == HistoryNotes(note_history', note_history_count',
                                 note_history_index')
       IN /\ GenerationStep => after = LastNotes(Append(before, current_note'))
          /\ LearningEndsStep => after = <<>>
          /\ ~GenerationStep /\ ~LearningEndsStep => after = before
          /\ note_history_count' <= NOTE_HISTORY_SIZE
          /\ note_history_count' > 0 => after[Len(after)] = current_note']_vars

\* the 9th note of a phrase has been generated: the index has wrapped, the
\* new note stands in the first cell and differs from the eight before it
C35_Witness ==
    /\ midi_out # NoMessage
    /\ note_history_count = NOTE_HISTORY_SIZE
    /\ note_history_index = 1
    /\ note_history[0] = current_note
    /\ note_history[0] # note_history[1]

\* ---------------------------------------------------------------------
\* The state update of generate_next_note()

\* C36: after every note generated on a trigger previous_note is the note
\* that was current before the call and last_direction_up tells whether
\* current_note is above previous_note; last_interval is current_note less
\* previous_note in every state, the start of a session and the state
\* after a reset included.
C36_StepStateConsistent ==
    [][/\ GenerationStep =>
            /\ previous_note' = current_note
            /\ last_direction_up' = (current_note' > previous_note')
       /\ last_interval = current_note - previous_note
       /\ last_interval' = current_note' - previous_note']_vars

\* a trigger has just generated a note below the one before it
C36_Witness ==
    /\ pc = "gateout"
    /\ midi_out # NoMessage
    /\ note_history_count = 1
    /\ current_note < previous_note
    /\ last_interval < 0
    /\ ~last_direction_up

\* ---------------------------------------------------------------------
\* The learning buffer and the session state

\* the count of stored notes fits the buffer and the session state
CountFitsState ==
    /\ note_buffer_count \in 0..MAX_LEARN_NOTES
    /\ learning_state = STATE_IDLE => note_buffer_count = 0
    /\ learning_state = STATE_GENERATING => note_buffer_count >= MIN_LEARN_NOTES

\* C37: note_buffer_count is always between 0 and 16, it is 0 in IDLE and
\* at least 4 in GENERATING; a note-on that arrives in LEARNING while 16
\* notes are stored is dropped and changes neither the buffer nor the
\* count nor the idle timer.
C37_BufferCountInvariant ==
    [][/\ CountFitsState
       /\ CountFitsState'
       /\ (NoteOnStep /\ learning_state = STATE_LEARNING
             /\ note_buffer_count = MAX_LEARN_NOTES)
            => UNCHANGED <<learning_state, note_buffer, note_buffer_count,
                           last_note_time>>]_vars

\* a 17th note-on has arrived in the pass that brought the 16th and was
\* dropped: the buffer still ends with the last note of the phrase
C37_Witness ==
    /\ pc = "midi"
    /\ learning_state = STATE_LEARNING
    /\ note_buffer_count = MAX_LEARN_NOTES
    /\ midi_event.type = "NoteOn"
    /\ midi_event.velocity > 0
    /\ midi_event.note = 60
    /\ note_buffer[MAX_LEARN_NOTES - 1] = 86

\* ---------------------------------------------------------------------
\* MEMORY at and above the neutral band

\* the settings of MEMORY compared
MemoryLevels == {0, 100, 400, 500, 600, 800, 1000}

\* the control vector P with MEMORY set to m
WithMemory(P, m) == [P EXCEPT ![PARAM_MEMORY] = m]

\* the settings of MEMORY whose energy-adjusted value under the other
\* controls of P is at least 0.4
NeutralOrSeeking(P) ==
    {m \in MemoryLevels : memory_param(WithMemory(P, m)) >= 400}

NoteStoredThisPass == last_note_time = now

\* C39: within one pass the MIDI input is handled first, then the learning
\* state is checked, then the encoder click, then the trigger.  A note-on
\* and a trigger edge in the same pass give no generated note when the
\* note-on restarts learning, so a note is generated in the pass of a
\* stored note-on only if that note-on filled the 16-note buffer; the
\* note-on that fills the buffer and a trigger edge in the same pass give a
\* note generated from the model analysed in that pass; a click of the same
\* pass is handled before the trigger and leaves it nothing to generate.
C39_OrderWithinPass ==
    [][/\ (GenerationStep /\ NoteStoredThisPass)
            => note_buffer_count = MAX_LEARN_NOTES
       /\ (RisingEdgeStep /\ NoteStoredThisPass
             /\ note_buffer_count = MAX_LEARN_NOTES)
            => /\ learning_state = STATE_GENERATING
               /\ tendencies = analyze_learned_notes(note_buffer, note_buffer_count)
               /\ current_note = StartNote(tendencies)
               /\ HistoryEmpty
               /\ GenerationStep
               /\ previous_note' = StartNote(tendencies)
               /\ note_history_count' = 1
       /\ (RisingEdgeStep /\ encoder_click) => ~GenerationStep]_vars

\* the 16th note-on of the long phrase and a trigger edge have arrived in
\* one pass, and the first note of the new session has been generated in it
C39_Witness ==
    /\ pc = "gateout"
    /\ midi_out # NoMessage
    /\ NoteStoredThisPass
    /\ note_buffer_count = MAX_LEARN_NOTES
    /\ note_buffer[MAX_LEARN_NOTES - 1] = 86
    /\ note_history_count = 1
    /\ gate1_state /\ ~gate1_prev


(***************************************************************************)
(* C40  Generation does not stay on one note, nor at a register limit      *)
(***************************************************************************)
\* the values random_float() is followed with in the runs below: each of
\* them below 1.0, the last one as close to it as the model's unit allows
FairDraws == {0, 600, 999}

\* control vectors at the ends of the dials that steer the choice of a note,
\* with no register gravity and no octave displacement to move the note
StuckVectors ==
    {[i \in 0..(TOTAL_PARAMS - 1) |->
        IF i = PARAM_MOTION THEN mo
        ELSE IF i = PARAM_DIRECTION THEN di
        ELSE IF i = PARAM_MEMORY THEN me
        ELSE IF i \in {PARAM_REGISTER, PARAM_RANGE_WIDTH, PARAM_PHRASE} THEN 0
        ELSE 500] :
       mo \in {0, 1000}, di \in {0, 1000}, me \in {0, 1000}}

\* learned phrases with at least two distinct notes, at the top and at the
\* bottom of the MIDI range
StuckPhrases ==
    {<<127, 126, 127, 125>>, <<0, 3, 1, 2>>}

\* a generating session whose last NOTE_HISTORY_SIZE + 1 notes were all
\* the same note, the last of them ending a phrase; end is one of the ways
\* the while loop of that last call can have ended
StuckOn(phrase, note, P, end) ==
    LET buf == [i \in 0..(MAX_LEARN_NOTES - 1) |->
                   IF i < Len(phrase) THEN phrase[i + 1] ELSE 0]
        T == analyze_learned_notes(buf, Len(phrase))
    IN /\ pc = "gate1"
       /\ now = StartTime
       /\ midi_event = NoEvent
       /\ midi_out = NoMessage
       /\ encoder_click = FALSE
       /\ learning_state = STATE_GENERATING
       /\ note_buffer = buf
       /\ note_buffer_count = Len(phrase)
       /\ last_note_time = 0
       /\ tendencies = T
       /\ current_note = note
       /\ previous_note = note
       /\ last_interval = 0
       /\ last_direction_up = FALSE
       /\ note_history = [i \in 0..(NOTE_HISTORY_SIZE - 1) |-> note]
       /\ note_history_count = NOTE_HISTORY_SIZE
       /\ note_history_index = 0
       /\ phrase_note_count = 0
       /\ phrase_target_length = PhraseTarget(P)
       /\ attempts = end.attempts
       /\ candidate_accepted = end.accepted
       /\ candidate_note = note
       /\ pot_values = [i \in 0..3 |-> P[i]]
       /\ parameters = P
       /\ parameters_smoothed = P
       /\ param_pickup_active = [i \in 0..(TOTAL_PARAMS - 1) |-> i < PARAMS_PER_PAGE]
       /\ pot_last_value = [i \in 0..(TOTAL_PARAMS - 1) |-> P[i % PARAMS_PER_PAGE]]
       /\ current_page = 0
       /\ gate1_state = FALSE
       /\ gate1_prev = FALSE
       /\ note_triggered = FALSE
       /\ gate_out_state = FALSE
       /\ gate_out_start_time = 0
       /\ gate_length_ms = 50

StuckInit ==
    \E phrase \in StuckPhrases, P \in StuckVectors :
      \E T \in {analyze_learned_notes(
                  [i \in 0..(MAX_LEARN_NOTES - 1) |->
                      IF i < Len(phrase) THEN phrase[i + 1] ELSE 0], Len(phrase))} :
        \E note \in {0, 127, StartNote(T)} :
          \E end \in LoopOutcomes(FairDraws, P, T, note,
                                  [i \in 0..(NOTE_HISTORY_SIZE - 1) |-> note],
                                  NOTE_HISTORY_SIZE, PhraseTarget(P) - 1,
                                  PhraseTarget(P)) :
            /\ end.note = note
            /\ StuckOn(phrase, note, P, end)

\* the next trigger pulse, as long as every note so far repeated the one
\* before it: the run is followed up to the first note that differs
StuckCall ==
    /\ pc = "gate1"
    /\ current_note = previous_note
    /\ TriggerGenerates(TRUE, FALSE, learning_state, note_buffer_count)
    /\ generate_next_note(FairDraws)
    /\ UNCHANGED <<pc, now, midi_event, encoder_click, session_vars, tendencies,
                   param_vars, gate_in_vars>>

StuckNext == StuckCall

\* two outcomes of a call that the random draws decide: a note that differs
\* from the current one, and a phrase that goes on beyond its target
CallMoves == StuckCall /\ current_note' # current_note
CallOverruns == StuckCall /\ phrase_note_count' >= phrase_target_length'

\* the trigger pulses keep arriving, and the draws are fair: an outcome
\* that the draws can give again and again is eventually given
StuckSpec ==
    /\ StuckInit
    /\ [][StuckNext]_vars
    /\ WF_vars(StuckCall)
    /\ SF_vars(CallMoves)
    /\ SF_vars(CallOverruns)

\* C40: for every control vector and every learned phrase with at least
\* two distinct notes, generation does not stay on one note or at a
\* register limit (0 or 127): with triggers continuing and fair draws, a
\* note different from current_note is eventually generated.
C40_NoteEventuallyChanges ==
    (current_note = previous_note) ~> (current_note # previous_note)

\* a run of 127s under DIRECTION 1.0 that went on into the next phrase and
\* then left the top of the range
C40_Witness ==
    /\ midi_out # NoMessage
    /\ previous_note = 127
    /\ current_note < 127
    /\ parameters_smoothed[PARAM_DIRECTION] = 1000
    /\ phrase_note_count > 1
    /\ \A i \in 0..(NOTE_HISTORY_SIZE - 1) :
         note_history[i] = 127 \/ i = (note_history_index + NOTE_HISTORY_SIZE - 1) % NOTE_HISTORY_SIZE

====
